---------------------------- MODULE Spec2Model ----------------------------
(***************************************************************************)
(* The mod reconciliation and folder-organisation engine of the Marvel     *)
(* Rivals mod manager (src-tauri/src/mod_service.rs), as a state machine   *)
(* over the file system it manages.                                        *)
(*                                                                         *)
(* Strings are sequences of one-character strings, paths are sequences of  *)
(* path segments.  The state is the content of the active mods root, of    *)
(* the disabled-mods root and of the metadata directory (JSON sidecars and *)
(* thumbnail sidecars).  Every public operation of ModService is an        *)
(* operator from a file-system state to a result; the actions apply them.  *)
(***************************************************************************)
EXTENDS Integers, Sequences, FiniteSets, TLC

(***************************************************************************)
(* Bounds of the model.                                                    *)
(***************************************************************************)
\* number of operations in one behaviour
MaxOps == 4

(***************************************************************************)
(* Strings.                                                                *)
(***************************************************************************)
Ascii ==
    <<" ", "!", "\"", "#", "$", "%", "&", "'", "(", ")", "*", "+", ",", "-", ".", "/">> \o
    <<"0", "1", "2", "3", "4", "5", "6", "7", "8", "9", ":", ";", "<", "=", ">", "?">> \o
    <<"@", "A", "B", "C", "D", "E", "F", "G", "H", "I", "J", "K", "L", "M", "N", "O">> \o
    <<"P", "Q", "R", "S", "T", "U", "V", "W", "X", "Y", "Z", "[", "\\", "]", "^", "_">> \o
    <<"grave", "a", "b", "c", "d", "e", "f", "g", "h", "i", "j", "k", "l", "m", "n", "o">> \o
    <<"p", "q", "r", "s", "t", "u", "v", "w", "x", "y", "z", "{", "|", "}", "~">>

\* (the lexer takes no grave accent in a string: "grave" stands for it)
\* the position of a character in the ASCII table, counted from the space
AsciiIndex == [c \in {Ascii[i] : i \in 1..Len(Ascii)} |->
                  CHOOSE i \in 1..Len(Ascii) : Ascii[i] = c] @@ << >>

UpperChars == {Ascii[i] : i \in 34..59}
LowerChars == {Ascii[i] : i \in 66..91}
DigitChars == {Ascii[i] : i \in 17..26}

is_uppercase(c) == c \in UpperChars
is_lowercase(c) == c \in LowerChars
is_alphabetic(c) == c \in UpperChars \cup LowerChars
is_numeric(c) == c \in DigitChars

char_to_lowercase(c) == IF is_uppercase(c) THEN Ascii[AsciiIndex[c] + 32] ELSE c
char_to_uppercase(c) == IF is_lowercase(c) THEN Ascii[AsciiIndex[c] - 32] ELSE c

to_lowercase(s) == [i \in 1..Len(s) |-> char_to_lowercase(s[i])]

\* str::cmp: lexicographic order of the bytes
RECURSIVE StrLessFrom(_, _, _)
StrLessFrom(a, b, i) ==
    IF i > Len(a) THEN i <= Len(b)
    ELSE IF i > Len(b) THEN FALSE
    ELSE IF a[i] = b[i] THEN StrLessFrom(a, b, i + 1)
    ELSE AsciiIndex[a[i]] < AsciiIndex[b[i]]

StrLess(a, b) == StrLessFrom(a, b, 1)

\* pat occurs in s at position i
IsPrefixAt(s, pat, i) ==
    /\ i + Len(pat) - 1 <= Len(s)
    /\ \A k \in 1..Len(pat) : s[i + k - 1] = pat[k]

\* str::contains
Contains(s, pat) == \E i \in 1..(Len(s) - Len(pat) + 1) : IsPrefixAt(s, pat, i)

ends_with(s, pat) == Len(s) >= Len(pat) /\ IsPrefixAt(s, pat, Len(s) - Len(pat) + 1)

\* str::replace: the non-overlapping matches of pat, left to right
RECURSIVE ReplaceFrom(_, _, _, _)
ReplaceFrom(s, pat, rep, i) ==
    IF i > Len(s) THEN << >>
    ELSE IF IsPrefixAt(s, pat, i) THEN rep \o ReplaceFrom(s, pat, rep, i + Len(pat))
    ELSE <<s[i]>> \o ReplaceFrom(s, pat, rep, i + 1)

Replace(s, pat, rep) == ReplaceFrom(s, pat, rep, 1)

\* the pieces of s between the characters of seps, empty pieces included
RECURSIVE SplitFrom(_, _, _, _)
SplitFrom(s, seps, i, cur) ==
    IF i > Len(s) THEN <<cur>>
    ELSE IF s[i] \in seps THEN <<cur>> \o SplitFrom(s, seps, i + 1, << >>)
    ELSE SplitFrom(s, seps, i + 1, Append(cur, s[i]))

Split(s, seps) == SplitFrom(s, seps, 1, << >>)

NonEmpty(x) == x # << >>

\* str::split_whitespace
split_whitespace(s) == SelectSeq(Split(s, {" "}), NonEmpty)

\* [String]::join
RECURSIVE JoinFrom(_, _, _)
JoinFrom(parts, sep, i) ==
    IF i > Len(parts) THEN << >>
    ELSE IF i = Len(parts) THEN parts[i]
    ELSE parts[i] \o sep \o JoinFrom(parts, sep, i + 1)

Join(parts, sep) == JoinFrom(parts, sep, 1)

\* Iterator::flat_map over a sequence of sequences
RECURSIVE Flatten(_)
Flatten(ss) == IF ss = << >> THEN << >> ELSE Head(ss) \o Flatten(Tail(ss))

\* Option<T>, as a sequence of at most one element
None == << >>
Some(x) == <<x>>

\* `let x = value;` and what follows it
With(value, rest(_)) == rest(value)

(***************************************************************************)
(* Paths (std::path).  A path is the sequence of its segments; the first   *)
(* segment of every path of the model stands for the absolute path of a    *)
(* root directory.                                                         *)
(***************************************************************************)
file_name(p) == p[Len(p)]
parent(p) == SubSeq(p, 1, Len(p) - 1)
join(p, name) == Append(p, name)

\* Path::starts_with, strictly
IsUnder(p, d) == Len(p) > Len(d) /\ SubSeq(p, 1, Len(d)) = d

\* Path::strip_prefix
strip_prefix(p, d) == SubSeq(p, Len(d) + 1, Len(p))

\* the index of the last "." of a file name that is not its first character
LastDot(name) ==
    LET dots == {i \in 2..Len(name) : name[i] = "."}
    IN  IF dots = {} THEN 0 ELSE CHOOSE i \in dots : \A j \in dots : j <= i

\* Path::extension
extension(name) ==
    IF LastDot(name) = 0 THEN None
    ELSE Some(SubSeq(name, LastDot(name) + 1, Len(name)))

\* Path::file_stem
file_stem(name) ==
    IF name = << >> THEN None
    ELSE IF LastDot(name) = 0 THEN Some(name)
    ELSE Some(SubSeq(name, 1, LastDot(name) - 1))

\* Path::to_str of a path
path_str(p) == Join(p, <<"/">>)

\* mods_directory: <game>/MarvelGame/Marvel/Content/Paks/~mods
mods_directory == << <<"~", "m", "o", "d", "s">> >>
\* disabled_mods_directory: <metadata>/disabled-mods
disabled_mods_directory == << <<"d", "i", "s", "a", "b", "l", "e", "d", "-", "m", "o", "d", "s">> >>

SUPPORTED_EXTENSIONS == { <<".", "p", "a", "k">> }
COMPANION_EXTENSIONS == << <<".", "u", "c", "a", "s">>, <<".", "u", "t", "o", "c">> >>
DisabledMarker == <<".", "d", "i", "s", "a", "b", "l", "e", "d">>

is_mod_file(p) ==
    /\ extension(file_name(p)) # None
    /\ (<<".">> \o extension(file_name(p))[1]) \in SUPPORTED_EXTENSIONS

(***************************************************************************)
(* types.rs: the closed enums and their tables.                            *)
(***************************************************************************)
ModCategory == {"UI", "Audio", "Skins", "Gameplay"}

category_keywords(c) ==
    CASE c = "UI" -> << <<"u", "i">>, <<"h", "u", "d">>, <<"m", "e", "n", "u">>, <<"i", "n", "t", "e", "r", "f", "a", "c", "e">> >>
      [] c = "Audio" -> << <<"a", "u", "d", "i", "o">>, <<"s", "o", "u", "n", "d">>, <<"m", "u", "s", "i", "c">>, <<"v", "o", "i", "c", "e">> >>
      [] c = "Skins" -> << <<"s", "k", "i", "n">>, <<"c", "o", "s", "t", "u", "m", "e">>, <<"o", "u", "t", "f", "i", "t">>, <<"a", "p", "p", "e", "a", "r", "a", "n", "c", "e">> >>
      [] c = "Gameplay" -> << <<"g", "a", "m", "e", "p", "l", "a", "y">>, <<"m", "e", "c", "h", "a", "n", "i", "c">>, <<"a", "b", "i", "l", "i", "t", "y">>, <<"s", "t", "a", "t">> >>

category_to_string(c) ==
    CASE c = "UI" -> <<"U", "I">>
      [] c = "Audio" -> <<"A", "u", "d", "i", "o">>
      [] c = "Skins" -> <<"S", "k", "i", "n", "s">>
      [] c = "Gameplay" -> <<"G", "a", "m", "e", "p", "l", "a", "y">>

\* Character::all_characters, in its order
all_characters ==
    << "CaptainAmerica", "DoctorStrange", "Groot", "Hulk", "Magneto",
       "PeniParker", "TheThing", "Thor", "Venom", "Angela",
       "Blade", "BlackPanther", "BlackWidow", "Daredevil", "EmmaFrost",
       "Gambit", "Hawkeye", "Hela", "HumanTorch", "IronFist",
       "Magik", "MisterFantastic", "MoonKnight", "Namor", "Phoenix",
       "Psylocke", "ScarletWitch", "SpiderMan", "SquirrelGirl", "StarLord",
       "Storm", "ThePunisher", "Ultron", "WinterSoldier", "Wolverine",
       "AdamWarlock", "CloakAndDagger", "InvisibleWoman", "IronMan", "JeffTheLandShark",
       "Loki", "LunaSnow", "Mantis", "RocketRaccoon" >>

\* the roster detect_character and detect_character_from_path iterate over
detect_characters ==
    << "CaptainAmerica", "DoctorStrange", "Groot", "Hulk", "Magneto",
       "PeniParker", "TheThing", "Thor", "Venom", "Angela",
       "Blade", "BlackPanther", "BlackWidow", "Daredevil", "EmmaFrost",
       "Hawkeye", "Hela", "HumanTorch", "IronFist", "Magik",
       "MisterFantastic", "MoonKnight", "Namor", "Phoenix", "Psylocke",
       "ScarletWitch", "SpiderMan", "SquirrelGirl", "StarLord", "Storm",
       "ThePunisher", "Ultron", "WinterSoldier", "Wolverine", "AdamWarlock",
       "CloakAndDagger", "InvisibleWoman", "IronMan", "JeffTheLandShark", "Loki",
       "LunaSnow", "Mantis", "RocketRaccoon" >>

\* Character::keywords
character_keywords(c) ==
    CASE c = "CaptainAmerica" -> << <<"c", "a", "p", "t", "a", "i", "n", "a", "m", "e", "r", "i", "c", "a">>, <<"c", "a", "p", "t", "a", "i", "n">>, <<"r", "o", "g", "e", "r", "s">>, <<"s", "t", "e", "v", "e">> >>
      [] c = "DoctorStrange" -> << <<"d", "o", "c", "t", "o", "r", "s", "t", "r", "a", "n", "g", "e">>, <<"s", "t", "r", "a", "n", "g", "e">>, <<"s", "t", "e", "p", "h", "e", "n">> >>
      [] c = "Groot" -> << <<"g", "r", "o", "o", "t">> >>
      [] c = "Hulk" -> << <<"h", "u", "l", "k">>, <<"b", "a", "n", "n", "e", "r">>, <<"b", "r", "u", "c", "e">> >>
      [] c = "Magneto" -> << <<"m", "a", "g", "n", "e", "t", "o">>, <<"e", "r", "i", "k">>, <<"m", "a", "x">> >>
      [] c = "PeniParker" -> << <<"p", "e", "n", "i">>, <<"p", "a", "r", "k", "e", "r">>, <<"p", "e", "n", "i", "p", "a", "r", "k", "e", "r">> >>
      [] c = "TheThing" -> << <<"t", "h", "i", "n", "g">>, <<"b", "e", "n">>, <<"g", "r", "i", "m", "m">> >>
      [] c = "Thor" -> << <<"t", "h", "o", "r">>, <<"o", "d", "i", "n", "s", "o", "n">> >>
      [] c = "Venom" -> << <<"v", "e", "n", "o", "m">>, <<"s", "y", "m", "b", "i", "o", "t", "e">>, <<"e", "d", "d", "i", "e">> >>
      [] c = "Angela" -> << <<"a", "n", "g", "e", "l", "a">> >>
      [] c = "Blade" -> << <<"b", "l", "a", "d", "e">>, <<"e", "r", "i", "c">>, <<"b", "r", "o", "o", "k", "s">> >>
      [] c = "BlackPanther" -> << <<"b", "l", "a", "c", "k", "p", "a", "n", "t", "h", "e", "r">>, <<"p", "a", "n", "t", "h", "e", "r">>, <<"t", "c", "h", "a", "l", "l", "a">> >>
      [] c = "BlackWidow" -> << <<"b", "l", "a", "c", "k", "w", "i", "d", "o", "w">>, <<"w", "i", "d", "o", "w">>, <<"n", "a", "t", "a", "s", "h", "a">>, <<"r", "o", "m", "a", "n", "o", "f", "f">> >>
      [] c = "Daredevil" -> << <<"d", "a", "r", "e", "d", "e", "v", "i", "l">>, <<"m", "a", "t", "t">>, <<"m", "u", "r", "d", "o", "c", "k">> >>
      [] c = "EmmaFrost" -> << <<"e", "m", "m", "a">>, <<"f", "r", "o", "s", "t">>, <<"e", "m", "m", "a", "f", "r", "o", "s", "t">>, <<"w", "h", "i", "t", "e">>, <<"q", "u", "e", "e", "n">> >>
      [] c = "Gambit" -> << <<"g", "a", "m", "b", "i", "t">>, <<"r", "e", "m", "y">>, <<"l", "e", "b", "e", "a", "u">> >>
      [] c = "Hawkeye" -> << <<"h", "a", "w", "k", "e", "y", "e">>, <<"c", "l", "i", "n", "t">>, <<"b", "a", "r", "t", "o", "n">> >>
      [] c = "Hela" -> << <<"h", "e", "l", "a">> >>
      [] c = "HumanTorch" -> << <<"h", "u", "m", "a", "n">>, <<"t", "o", "r", "c", "h">>, <<"h", "u", "m", "a", "n", "t", "o", "r", "c", "h">>, <<"j", "o", "h", "n", "n", "y">>, <<"s", "t", "o", "r", "m">> >>
      [] c = "IronFist" -> << <<"i", "r", "o", "n", "f", "i", "s", "t">>, <<"d", "a", "n", "n", "y">>, <<"r", "a", "n", "d">> >>
      [] c = "Magik" -> << <<"m", "a", "g", "i", "k">>, <<"i", "l", "l", "y", "a", "n", "a">> >>
      [] c = "MisterFantastic" -> << <<"m", "i", "s", "t", "e", "r">>, <<"f", "a", "n", "t", "a", "s", "t", "i", "c">>, <<"m", "i", "s", "t", "e", "r", "f", "a", "n", "t", "a", "s", "t", "i", "c">>, <<"r", "e", "e", "d">>, <<"r", "i", "c", "h", "a", "r", "d", "s">> >>
      [] c = "MoonKnight" -> << <<"m", "o", "o", "n", "k", "n", "i", "g", "h", "t">>, <<"m", "a", "r", "c">>, <<"s", "p", "e", "c", "t", "o", "r">> >>
      [] c = "Namor" -> << <<"n", "a", "m", "o", "r">>, <<"s", "u", "b", "m", "a", "r", "i", "n", "e", "r">> >>
      [] c = "Phoenix" -> << <<"p", "h", "o", "e", "n", "i", "x">>, <<"j", "e", "a", "n">>, <<"g", "r", "e", "y">> >>
      [] c = "Psylocke" -> << <<"p", "s", "y", "l", "o", "c", "k", "e">>, <<"b", "e", "t", "s", "y">> >>
      [] c = "ScarletWitch" -> << <<"s", "c", "a", "r", "l", "e", "t", "w", "i", "t", "c", "h">>, <<"w", "a", "n", "d", "a">>, <<"m", "a", "x", "i", "m", "o", "f", "f">> >>
      [] c = "SpiderMan" -> << <<"s", "p", "i", "d", "e", "r", "m", "a", "n">>, <<"s", "p", "i", "d", "e", "r">>, <<"p", "e", "t", "e", "r">>, <<"p", "a", "r", "k", "e", "r">> >>
      [] c = "SquirrelGirl" -> << <<"s", "q", "u", "i", "r", "r", "e", "l", "g", "i", "r", "l">>, <<"d", "o", "r", "e", "e", "n">> >>
      [] c = "StarLord" -> << <<"s", "t", "a", "r", "l", "o", "r", "d">>, <<"s", "t", "a", "r">>, <<"l", "o", "r", "d">>, <<"q", "u", "i", "l", "l">>, <<"p", "e", "t", "e", "r">> >>
      [] c = "Storm" -> << <<"s", "t", "o", "r", "m">>, <<"o", "r", "o", "r", "o">> >>
      [] c = "ThePunisher" -> << <<"p", "u", "n", "i", "s", "h", "e", "r">>, <<"f", "r", "a", "n", "k">>, <<"c", "a", "s", "t", "l", "e">> >>
      [] c = "Ultron" -> << <<"u", "l", "t", "r", "o", "n">> >>
      [] c = "WinterSoldier" -> << <<"w", "i", "n", "t", "e", "r", "s", "o", "l", "d", "i", "e", "r">>, <<"w", "i", "n", "t", "e", "r">>, <<"b", "u", "c", "k", "y">>, <<"b", "a", "r", "n", "e", "s">> >>
      [] c = "Wolverine" -> << <<"w", "o", "l", "v", "e", "r", "i", "n", "e">>, <<"l", "o", "g", "a", "n">>, <<"j", "a", "m", "e", "s">>, <<"h", "o", "w", "l", "e", "t", "t">> >>
      [] c = "AdamWarlock" -> << <<"a", "d", "a", "m", "w", "a", "r", "l", "o", "c", "k">>, <<"a", "d", "a", "m">>, <<"w", "a", "r", "l", "o", "c", "k">> >>
      [] c = "CloakAndDagger" -> << <<"c", "l", "o", "a", "k">>, <<"d", "a", "g", "g", "e", "r">>, <<"c", "l", "o", "a", "k", "a", "n", "d", "d", "a", "g", "g", "e", "r">>, <<"t", "y", "r", "o", "n", "e">>, <<"t", "a", "n", "d", "y">> >>
      [] c = "InvisibleWoman" -> << <<"i", "n", "v", "i", "s", "i", "b", "l", "e", "w", "o", "m", "a", "n">>, <<"i", "n", "v", "i", "s", "i", "b", "l", "e">>, <<"s", "u", "e">>, <<"s", "t", "o", "r", "m">> >>
      [] c = "IronMan" -> << <<"i", "r", "o", "n", "m", "a", "n">>, <<"t", "o", "n", "y">>, <<"s", "t", "a", "r", "k">> >>
      [] c = "JeffTheLandShark" -> << <<"j", "e", "f", "f">>, <<"l", "a", "n", "d", "s", "h", "a", "r", "k">>, <<"s", "h", "a", "r", "k">> >>
      [] c = "Loki" -> << <<"l", "o", "k", "i">>, <<"l", "a", "u", "f", "e", "y", "s", "o", "n">> >>
      [] c = "LunaSnow" -> << <<"l", "u", "n", "a", "s", "n", "o", "w">>, <<"l", "u", "n", "a">>, <<"s", "n", "o", "w">> >>
      [] c = "Mantis" -> << <<"m", "a", "n", "t", "i", "s">> >>
      [] c = "RocketRaccoon" -> << <<"r", "o", "c", "k", "e", "t", "r", "a", "c", "c", "o", "o", "n">>, <<"r", "o", "c", "k", "e", "t">>, <<"r", "a", "c", "c", "o", "o", "n">> >>

\* impl Display for Character
character_to_string(c) ==
    CASE c = "CaptainAmerica" -> <<"C", "a", "p", "t", "a", "i", "n", " ", "A", "m", "e", "r", "i", "c", "a">>
      [] c = "DoctorStrange" -> <<"D", "o", "c", "t", "o", "r", " ", "S", "t", "r", "a", "n", "g", "e">>
      [] c = "Groot" -> <<"G", "r", "o", "o", "t">>
      [] c = "Hulk" -> <<"H", "u", "l", "k">>
      [] c = "Magneto" -> <<"M", "a", "g", "n", "e", "t", "o">>
      [] c = "PeniParker" -> <<"P", "e", "n", "i", " ", "P", "a", "r", "k", "e", "r">>
      [] c = "TheThing" -> <<"T", "h", "e", " ", "T", "h", "i", "n", "g">>
      [] c = "Thor" -> <<"T", "h", "o", "r">>
      [] c = "Venom" -> <<"V", "e", "n", "o", "m">>
      [] c = "Angela" -> <<"A", "n", "g", "e", "l", "a">>
      [] c = "Blade" -> <<"B", "l", "a", "d", "e">>
      [] c = "BlackPanther" -> <<"B", "l", "a", "c", "k", " ", "P", "a", "n", "t", "h", "e", "r">>
      [] c = "BlackWidow" -> <<"B", "l", "a", "c", "k", " ", "W", "i", "d", "o", "w">>
      [] c = "Daredevil" -> <<"D", "a", "r", "e", "d", "e", "v", "i", "l">>
      [] c = "EmmaFrost" -> <<"E", "m", "m", "a", " ", "F", "r", "o", "s", "t">>
      [] c = "Gambit" -> <<"G", "a", "m", "b", "i", "t">>
      [] c = "Hawkeye" -> <<"H", "a", "w", "k", "e", "y", "e">>
      [] c = "Hela" -> <<"H", "e", "l", "a">>
      [] c = "HumanTorch" -> <<"H", "u", "m", "a", "n", " ", "T", "o", "r", "c", "h">>
      [] c = "IronFist" -> <<"I", "r", "o", "n", " ", "F", "i", "s", "t">>
      [] c = "Magik" -> <<"M", "a", "g", "i", "k">>
      [] c = "MisterFantastic" -> <<"M", "i", "s", "t", "e", "r", " ", "F", "a", "n", "t", "a", "s", "t", "i", "c">>
      [] c = "MoonKnight" -> <<"M", "o", "o", "n", " ", "K", "n", "i", "g", "h", "t">>
      [] c = "Namor" -> <<"N", "a", "m", "o", "r">>
      [] c = "Phoenix" -> <<"P", "h", "o", "e", "n", "i", "x">>
      [] c = "Psylocke" -> <<"P", "s", "y", "l", "o", "c", "k", "e">>
      [] c = "ScarletWitch" -> <<"S", "c", "a", "r", "l", "e", "t", " ", "W", "i", "t", "c", "h">>
      [] c = "SpiderMan" -> <<"S", "p", "i", "d", "e", "r", "-", "M", "a", "n">>
      [] c = "SquirrelGirl" -> <<"S", "q", "u", "i", "r", "r", "e", "l", " ", "G", "i", "r", "l">>
      [] c = "StarLord" -> <<"S", "t", "a", "r", "-", "L", "o", "r", "d">>
      [] c = "Storm" -> <<"S", "t", "o", "r", "m">>
      [] c = "ThePunisher" -> <<"T", "h", "e", " ", "P", "u", "n", "i", "s", "h", "e", "r">>
      [] c = "Ultron" -> <<"U", "l", "t", "r", "o", "n">>
      [] c = "WinterSoldier" -> <<"W", "i", "n", "t", "e", "r", " ", "S", "o", "l", "d", "i", "e", "r">>
      [] c = "Wolverine" -> <<"W", "o", "l", "v", "e", "r", "i", "n", "e">>
      [] c = "AdamWarlock" -> <<"A", "d", "a", "m", " ", "W", "a", "r", "l", "o", "c", "k">>
      [] c = "CloakAndDagger" -> <<"C", "l", "o", "a", "k", " ", "a", "n", "d", " ", "D", "a", "g", "g", "e", "r">>
      [] c = "InvisibleWoman" -> <<"I", "n", "v", "i", "s", "i", "b", "l", "e", " ", "W", "o", "m", "a", "n">>
      [] c = "IronMan" -> <<"I", "r", "o", "n", " ", "M", "a", "n">>
      [] c = "JeffTheLandShark" -> <<"J", "e", "f", "f", " ", "t", "h", "e", " ", "L", "a", "n", "d", " ", "S", "h", "a", "r", "k">>
      [] c = "Loki" -> <<"L", "o", "k", "i">>
      [] c = "LunaSnow" -> <<"L", "u", "n", "a", " ", "S", "n", "o", "w">>
      [] c = "Mantis" -> <<"M", "a", "n", "t", "i", "s">>
      [] c = "RocketRaccoon" -> <<"R", "o", "c", "k", "e", "t", " ", "R", "a", "c", "c", "o", "o", "n">>

\* Option<Character>::None
NoCharacter == "None"

(***************************************************************************)
(* Naming and classification (mod_service.rs).                             *)
(***************************************************************************)
SanitizeMaxLen == 100

\* !matches!(c, '<' | '>' | ':' | '"' | '/' | '\\' | '|' | '?' | '*')
IsValidFolderChar(c) == c \notin {"<", ">", ":", "\"", "/", "\\", "|", "?", "*"}

RECURSIVE trim_start_matches(_, _)
trim_start_matches(s, cs) ==
    IF s # << >> /\ Head(s) \in cs THEN trim_start_matches(Tail(s), cs) ELSE s

RECURSIVE trim_end_matches(_, _)
trim_end_matches(s, cs) ==
    IF s # << >> /\ s[Len(s)] \in cs
    THEN trim_end_matches(SubSeq(s, 1, Len(s) - 1), cs) ELSE s

trim_matches(s, cs) == trim_end_matches(trim_start_matches(s, cs), cs)

take(s, n) == SubSeq(s, 1, IF Len(s) < n THEN Len(s) ELSE n)

sanitize_folder_name(name) ==
    take(trim_matches(Replace(Join(split_whitespace(SelectSeq(name, IsValidFolderChar)),
                                   <<" ">>),
                              <<" ">>, <<"-">>),
                      {"-", ".", " "}),
         SanitizeMaxLen)

\* the split points of split_camel_case: the 1-based positions a new part starts at
CamelSplitPoints(w) ==
    {j \in 2..Len(w) :
        \/ is_lowercase(w[j - 1]) /\ is_uppercase(w[j])
        \/ j > 2 /\ is_uppercase(w[j - 2]) /\ is_uppercase(w[j - 1]) /\ is_lowercase(w[j])}

RECURSIVE CamelPartsFrom(_, _, _)
CamelPartsFrom(w, last_split, i) ==
    IF i > Len(w)
    THEN IF last_split <= Len(w) THEN <<SubSeq(w, last_split, Len(w))>> ELSE << >>
    ELSE IF i \in CamelSplitPoints(w)
         THEN <<SubSeq(w, last_split, i - 1)>> \o CamelPartsFrom(w, i, i + 1)
         ELSE CamelPartsFrom(w, last_split, i + 1)

\* `if parts.is_empty() { vec![word] } else { parts }`
OrWhole(parts, w) == IF parts = << >> THEN <<w>> ELSE parts

split_camel_case(w) == OrWhole(CamelPartsFrom(w, 1, 2), w)

IsUpperOrNonAlpha(c) == is_uppercase(c) \/ ~is_alphabetic(c)
AllChars(s, P(_)) == \A i \in 1..Len(s) : P(s[i])

\* a part that extract_mod_name keeps: not a run of digits longer than 2
KeepPart(p) == ~AllChars(p, is_numeric) \/ Len(p) <= 2

title_case(w) ==
    IF Len(w) <= 3 /\ AllChars(w, IsUpperOrNonAlpha) THEN w
    ELSE IF w = << >> THEN << >>
    ELSE <<char_to_uppercase(w[1])>> \o to_lowercase(Tail(w))

\* file_stem(..).unwrap_or("Untitled Mod")
StemOr(stem) ==
    IF stem = None THEN <<"U", "n", "t", "i", "t", "l", "e", "d", " ", "M", "o", "d">>
    ELSE stem[1]

\* the pieces of the cleaned stem that extract_mod_name keeps
NameParts(stem) ==
    SelectSeq(SelectSeq(Split(Replace(Replace(Replace(stem, <<"_", "P">>, << >>),
                                              <<"_", "p", "a", "k">>, << >>),
                                      <<"&">>, <<" ">>),
                              {"-", "_", "."}),
                        NonEmpty),
              KeepPart)

\* the first piece goes when it is a short uppercase prefix
DropShortPrefix(parts) ==
    IF parts # << >> /\ Len(parts[1]) <= 2 /\ AllChars(parts[1], IsUpperOrNonAlpha)
    THEN Tail(parts) ELSE parts

\* flat_map(split_camel_case) over the words
CamelWords(ws) == Flatten([i \in 1..Len(ws) |-> split_camel_case(ws[i])])

extract_mod_name(fname) ==
    With(CamelWords(split_whitespace(
             Join(DropShortPrefix(NameParts(StemOr(file_stem(fname)))), <<" ">>))),
         LAMBDA ws : Join([i \in 1..Len(ws) |-> title_case(ws[i])], <<" ">>))

AnyKeyword(kws, P(_)) == \E i \in 1..Len(kws) : P(kws[i])

\* the first element of seq that satisfies P, as an Option
RECURSIVE FindFirst(_, _, _)
FindFirst(seq, P(_), i) ==
    IF i > Len(seq) THEN None
    ELSE IF P(seq[i]) THEN Some(seq[i])
    ELSE FindFirst(seq, P, i + 1)

\* Option::unwrap_or
unwrap_or(option, default) == IF option = None THEN default ELSE option[1]

\* the first category, in the order UI, Audio, Skins, Gameplay, with a keyword
\* in the lowercased name; Skins when there is none
detect_category(fname) ==
    With(to_lowercase(fname), LAMBDA lower_name :
    unwrap_or(FindFirst(<<"UI", "Audio", "Skins", "Gameplay">>,
                        LAMBDA c : AnyKeyword(category_keywords(c),
                                              LAMBDA kw : Contains(lower_name, kw)),
                        1),
              "Skins"))

\* path_str.contains("\\name\\") || path_str.contains("/name/")
HasFolder(s, n) ==
    \/ Contains(s, <<"\\">> \o n \o <<"\\">>)
    \/ Contains(s, <<"/">> \o n \o <<"/">>)

\* a faulty variant: the file name alone decides
CategoryOfName(path, fname) == detect_category(fname)

detect_category_from_path(path, fname) ==
    With(to_lowercase(path_str(path)), LAMBDA s :
    IF HasFolder(s, <<"s", "k", "i", "n", "s">>) THEN "Skins"
    ELSE IF HasFolder(s, <<"u", "i">>) THEN "UI"
    ELSE IF HasFolder(s, <<"a", "u", "d", "i", "o">>) THEN "Audio"
    ELSE IF HasFolder(s, <<"g", "a", "m", "e", "p", "l", "a", "y">>) THEN "Gameplay"
    ELSE detect_category(fname))

\* the keywords of the roster that detect_character* goes through, in its order
RosterKeywords ==
    [i \in 1..Len(detect_characters) |-> character_keywords(detect_characters[i])]

\* format!("\\{}\\", keyword) and format!("/{}/", keyword) for the roster
RosterPatternsWindows ==
    [i \in 1..Len(detect_characters) |->
        [k \in 1..Len(RosterKeywords[i]) |-> <<"\\">> \o RosterKeywords[i][k] \o <<"\\">>]]

RosterPatternsUnix ==
    [i \in 1..Len(detect_characters) |->
        [k \in 1..Len(RosterKeywords[i]) |-> <<"/">> \o RosterKeywords[i][k] \o <<"/">>]]

\* the positions of a character in a string
PositionsOf(s, c) == {i \in 1..Len(s) : s[i] = c}

\* str::contains, looking only where the first character of pat is
ContainsAt(s, pat, starts) == \E i \in starts : IsPrefixAt(s, pat, i)

\* the least element of a non-empty set of numbers
Least(S) == CHOOSE i \in S : \A j \in S : i <= j

\* the first character of the roster among those at the given positions
FirstOfRoster(hits) == IF hits = {} THEN None ELSE Some(detect_characters[Least(hits)])

detect_character(fname) ==
    With(to_lowercase(fname), LAMBDA lower_name :
    unwrap_or(FirstOfRoster({i \in 1..Len(detect_characters) :
                                \E k \in 1..Len(RosterKeywords[i]) :
                                    Contains(lower_name, RosterKeywords[i][k])}),
              NoCharacter))

\* the roster positions with a keyword that is a folder of the lowercased path s
RosterFolderHits(s, backslashes, slashes) ==
    {i \in 1..Len(detect_characters) :
        \E k \in 1..Len(RosterKeywords[i]) :
            \/ ContainsAt(s, RosterPatternsWindows[i][k], backslashes)
            \/ ContainsAt(s, RosterPatternsUnix[i][k], slashes)}

\* the fallback to the file name when no folder names a character
OrByName(found, fname) == IF found = None THEN detect_character(fname) ELSE found[1]

detect_character_from_path(path, fname) ==
    With(to_lowercase(path_str(path)), LAMBDA s :
    OrByName(FirstOfRoster(RosterFolderHits(s, PositionsOf(s, "\\"), PositionsOf(s, "/"))),
             fname))

(***************************************************************************)
(* The file system.  A disk state s is a record                            *)
(*   files  : the files under the two roots, each with its content (the    *)
(*            path of the outside file it is a copy of),                   *)
(*   dirs   : the directories under (and including) the two roots,         *)
(*   meta   : the <id>.json sidecars of the metadata directory,            *)
(*   thumbs : the ids that have an <id>_thumbnail.png sidecar.             *)
(*   denied : the paths the platform refuses to list or to stat,           *)
(*   legacy : the names of the files of the thumbnails directory, which    *)
(*            the program reads and never writes.                          *)
(*                                                                         *)
(* Whatever can fail returns a result [ok, s, ret]: Ok(s, value) or Err(s),*)
(* with s the disk it leaves.  Try and TryValue are the `?` of the source: *)
(* the rest of the operation runs on what a successful step leaves.        *)
(***************************************************************************)
Unit == "()"
Ok(s, v) == [ok |-> TRUE, s |-> s, ret |-> <<v>>]
Err(s) == [ok |-> FALSE, s |-> s, ret |-> << >>]

Try(r, rest(_)) == IF r.ok THEN rest(r.s) ELSE Err(r.s)
TryValue(r, rest(_, _)) == IF r.ok THEN rest(r.s, r.ret[1]) ELSE Err(r.s)

Restrict(fn, S) == [x \in S |-> fn[x]]

IsFile(s, p) == p \in DOMAIN s.files
IsDir(s, p) == p \in s.dirs
Exists(s, p) == IsFile(s, p) \/ IsDir(s, p)

Entries(s) == DOMAIN s.files \cup s.dirs

\* fs::read_dir: the entries directly in d
read_dir(s, d) == {p \in Entries(s) : parent(p) = d}

Prefixes(p) == {SubSeq(p, 1, n) : n \in 1..Len(p)}

\* fs::create_dir_all
create_dir_all(s, p) ==
    IF \E q \in Prefixes(p) : IsFile(s, q) THEN Err(s)
    ELSE Ok([s EXCEPT !.dirs = @ \cup Prefixes(p)], Unit)

\* ensure_directory_exists
ensure_directory_exists(s, p) ==
    IF ~Exists(s, p) THEN create_dir_all(s, p) ELSE Ok(s, Unit)

\* writing a file at p with the given content (the target of fs::copy)
WriteFile(s, p, content) ==
    IF IsDir(s, p) \/ ~IsDir(s, parent(p)) THEN Err(s)
    ELSE Ok([s EXCEPT !.files = [q \in DOMAIN s.files \cup {p} |->
                                    IF q = p THEN content ELSE s.files[q]]], Unit)

\* fs::copy between two files of the managed tree
fs_copy(s, from, to) ==
    IF ~IsFile(s, from) THEN Err(s)
    ELSE IF from = to THEN Ok(s, Unit)
    ELSE WriteFile(s, to, s.files[from])

\* fs::remove_file
remove_file(s, p) ==
    IF ~IsFile(s, p) THEN Err(s)
    ELSE Ok([s EXCEPT !.files = Restrict(@, DOMAIN @ \ {p})], Unit)

\* fs::remove_dir_all
remove_dir_all(s, d) ==
    IF ~IsDir(s, d) THEN Err(s)
    ELSE Ok([s EXCEPT !.files = Restrict(@, {p \in DOMAIN @ : ~IsUnder(p, d)}),
                      !.dirs = {p \in @ : p # d /\ ~IsUnder(p, d)}], Unit)

\* the place of p after its ancestor (or self) from has become to
Moved(p, from, to) == to \o strip_prefix(p, from)

\* a file renamed: it replaces the file at the new place
RenameFile(s, from, to) ==
    [s EXCEPT !.files = [q \in (DOMAIN s.files \ {from}) \cup {to} |->
                            IF q = to THEN s.files[from] ELSE s.files[q]]]

\* a directory renamed, with all that is below it
RenameDir(s, from, to) ==
    [s EXCEPT
        !.files = [q \in {p \in DOMAIN s.files : ~IsUnder(p, from)}
                         \cup {Moved(p, from, to) : p \in {x \in DOMAIN s.files : IsUnder(x, from)}}
                     |-> IF q \in DOMAIN s.files /\ ~IsUnder(q, from) THEN s.files[q]
                         ELSE s.files[Moved(q, to, from)]],
        !.dirs = {p \in @ : p # from /\ ~IsUnder(p, from)}
                 \cup {Moved(p, from, to) : p \in {q \in s.dirs : q = from \/ IsUnder(q, from)}}]

\* fs::rename.  A file replaces an existing file; a directory moves only to a
\* place that is free or an empty directory (where the platform refuses an
\* empty directory too, the call fails like a locked one: the fault input of
\* the callers).
fs_rename(s, from, to) ==
    IF ~IsDir(s, parent(to)) THEN Err(s)
    ELSE IF IsFile(s, from)
    THEN IF IsDir(s, to) THEN Err(s)
         ELSE IF from = to THEN Ok(s, Unit)
         ELSE Ok(RenameFile(s, from, to), Unit)
    ELSE IF IsDir(s, from)
    THEN IF \/ IsFile(s, to)
            \/ IsUnder(to, from)
            \/ (IsDir(s, to) /\ to # from /\ read_dir(s, to) # {})
         THEN Err(s)
         ELSE IF from = to THEN Ok(s, Unit)
         ELSE Ok(RenameDir(s, from, to), Unit)
    ELSE Err(s)

(***************************************************************************)
(* The metadata store.                                                     *)
(***************************************************************************)
\* the digest prefix of generate_mod_id*: SHA-256 cut to 16 hex digits, taken
\* to be free of collisions, so a digest stands for the bytes it was made of
Sha256Prefix16(bytes) == <<"#">> \o bytes

\* a faulty variant: the digest of the path as it is
IdOfRawPath(file_path, fname) == Sha256Prefix16(path_str(file_path))

generate_mod_id_from_path(file_path, fname) ==
    Sha256Prefix16(Replace(path_str(file_path), DisabledMarker, << >>))

\* the legacy identifier, of the file name alone
generate_mod_id(fname) == Sha256Prefix16(fname)

\* serde's names of the variants: of ModCategory the variant names, of
\* Character the names of the rename attributes
category_serde_name(c) ==
    CASE c = "UI" -> <<"U", "I">>
      [] c = "Audio" -> <<"A", "u", "d", "i", "o">>
      [] c = "Skins" -> <<"S", "k", "i", "n", "s">>
      [] c = "Gameplay" -> <<"G", "a", "m", "e", "p", "l", "a", "y">>

character_serde_name(c) ==
    CASE c = "CaptainAmerica" -> <<"C", "a", "p", "t", "a", "i", "n", " ", "A", "m", "e", "r", "i", "c", "a">>
      [] c = "DoctorStrange" -> <<"D", "o", "c", "t", "o", "r", " ", "S", "t", "r", "a", "n", "g", "e">>
      [] c = "Groot" -> <<"G", "r", "o", "o", "t">>
      [] c = "Hulk" -> <<"H", "u", "l", "k">>
      [] c = "Magneto" -> <<"M", "a", "g", "n", "e", "t", "o">>
      [] c = "PeniParker" -> <<"P", "e", "n", "i", " ", "P", "a", "r", "k", "e", "r">>
      [] c = "TheThing" -> <<"T", "h", "e", " ", "T", "h", "i", "n", "g">>
      [] c = "Thor" -> <<"T", "h", "o", "r">>
      [] c = "Venom" -> <<"V", "e", "n", "o", "m">>
      [] c = "Angela" -> <<"A", "n", "g", "e", "l", "a">>
      [] c = "Blade" -> <<"B", "l", "a", "d", "e">>
      [] c = "BlackPanther" -> <<"B", "l", "a", "c", "k", " ", "P", "a", "n", "t", "h", "e", "r">>
      [] c = "BlackWidow" -> <<"B", "l", "a", "c", "k", " ", "W", "i", "d", "o", "w">>
      [] c = "Daredevil" -> <<"D", "a", "r", "e", "d", "e", "v", "i", "l">>
      [] c = "EmmaFrost" -> <<"E", "m", "m", "a", " ", "F", "r", "o", "s", "t">>
      [] c = "Gambit" -> <<"G", "a", "m", "b", "i", "t">>
      [] c = "Hawkeye" -> <<"H", "a", "w", "k", "e", "y", "e">>
      [] c = "Hela" -> <<"H", "e", "l", "a">>
      [] c = "HumanTorch" -> <<"H", "u", "m", "a", "n", " ", "T", "o", "r", "c", "h">>
      [] c = "IronFist" -> <<"I", "r", "o", "n", " ", "F", "i", "s", "t">>
      [] c = "Magik" -> <<"M", "a", "g", "i", "k">>
      [] c = "MisterFantastic" -> <<"M", "i", "s", "t", "e", "r", " ", "F", "a", "n", "t", "a", "s", "t", "i", "c">>
      [] c = "MoonKnight" -> <<"M", "o", "o", "n", " ", "K", "n", "i", "g", "h", "t">>
      [] c = "Namor" -> <<"N", "a", "m", "o", "r">>
      [] c = "Phoenix" -> <<"P", "h", "o", "e", "n", "i", "x">>
      [] c = "Psylocke" -> <<"P", "s", "y", "l", "o", "c", "k", "e">>
      [] c = "ScarletWitch" -> <<"S", "c", "a", "r", "l", "e", "t", " ", "W", "i", "t", "c", "h">>
      [] c = "SpiderMan" -> <<"S", "p", "i", "d", "e", "r", "-", "M", "a", "n">>
      [] c = "SquirrelGirl" -> <<"S", "q", "u", "i", "r", "r", "e", "l", " ", "G", "i", "r", "l">>
      [] c = "StarLord" -> <<"S", "t", "a", "r", "-", "L", "o", "r", "d">>
      [] c = "Storm" -> <<"S", "t", "o", "r", "m">>
      [] c = "ThePunisher" -> <<"T", "h", "e", " ", "P", "u", "n", "i", "s", "h", "e", "r">>
      [] c = "Ultron" -> <<"U", "l", "t", "r", "o", "n">>
      [] c = "WinterSoldier" -> <<"W", "i", "n", "t", "e", "r", " ", "S", "o", "l", "d", "i", "e", "r">>
      [] c = "Wolverine" -> <<"W", "o", "l", "v", "e", "r", "i", "n", "e">>
      [] c = "AdamWarlock" -> <<"A", "d", "a", "m", " ", "W", "a", "r", "l", "o", "c", "k">>
      [] c = "CloakAndDagger" -> <<"C", "l", "o", "a", "k", " ", "a", "n", "d", " ", "D", "a", "g", "g", "e", "r">>
      [] c = "InvisibleWoman" -> <<"I", "n", "v", "i", "s", "i", "b", "l", "e", " ", "W", "o", "m", "a", "n">>
      [] c = "IronMan" -> <<"I", "r", "o", "n", " ", "M", "a", "n">>
      [] c = "JeffTheLandShark" -> <<"J", "e", "f", "f", " ", "t", "h", "e", " ", "L", "a", "n", "d", " ", "S", "h", "a", "r", "k">>
      [] c = "Loki" -> <<"L", "o", "k", "i">>
      [] c = "LunaSnow" -> <<"L", "u", "n", "a", " ", "S", "n", "o", "w">>
      [] c = "Mantis" -> <<"M", "a", "n", "t", "i", "s">>
      [] c = "RocketRaccoon" -> <<"R", "o", "c", "k", "e", "t", " ", "R", "a", "c", "c", "o", "o", "n">>

\* the values of a JSON document
JsonNull == [null |-> TRUE]
\* a string is written with its quotes and backslashes escaped
RECURSIVE Escape(_)
Escape(x) ==
    IF x = << >> THEN << >>
    ELSE IF x[1] \in {"\"", "\\"} THEN <<"\\", x[1]>> \o Escape(Tail(x))
    ELSE <<x[1]>> \o Escape(Tail(x))

RECURSIVE Unescape(_)
Unescape(x) ==
    IF x = << >> THEN << >>
    ELSE IF x[1] = "\\" THEN <<x[2]>> \o Unescape(SubSeq(x, 3, Len(x)))
    ELSE <<x[1]>> \o Unescape(Tail(x))

JsonString(x) == [string |-> Escape(x)]
JsonBool(b) == [bool |-> b]
JsonNumber(n) == [number |-> n]
JsonArray(a) == [array |-> a]

\* Option<T>: null for None, the value's own form for Some
JsonOption(o, json(_)) == IF o = None THEN JsonNull ELSE json(o[1])
FromJsonOption(v, value(_)) == IF v = JsonNull THEN None ELSE Some(value(v))

StringOf(v) == Unescape(v.string)
NumberOf(v) == v.number
JsonStrings(a) == JsonArray([i \in DOMAIN a |-> JsonString(a[i])])
StringsOf(v) == [i \in DOMAIN v.array |-> StringOf(v.array[i])]

\* DateTime<Utc> is written as a string of its digits and read back from it
Digit(n) == <<"0", "1", "2", "3", "4", "5", "6", "7", "8", "9">>[n + 1]
DigitValue(c) == CHOOSE n \in 0..9 : Digit(n) = c

RECURSIVE DateTimeToString(_)
DateTimeToString(t) ==
    IF t < 10 THEN <<Digit(t)>> ELSE DateTimeToString(t \div 10) \o <<Digit(t % 10)>>

RECURSIVE DateTimeFromString(_)
DateTimeFromString(x) ==
    IF Len(x) = 1 THEN DigitValue(x[1])
    ELSE 10 * DateTimeFromString(SubSeq(x, 1, Len(x) - 1)) + DigitValue(x[Len(x)])

JsonDateTime(t) == JsonString(DateTimeToString(t))
DateTimeOf(v) == DateTimeFromString(StringOf(v))

\* serde_json::to_string_pretty of a ModMetadata: the keys in camelCase
to_json(metadata) ==
    [title        |-> JsonString(metadata.title),
     description  |-> JsonString(metadata.description),
     author       |-> JsonOption(metadata.author, JsonString),
     version      |-> JsonOption(metadata.version, JsonString),
     tags         |-> JsonStrings(metadata.tags),
     category     |-> JsonString(category_serde_name(metadata.category)),
     character    |-> IF metadata.character = NoCharacter THEN JsonNull
                      ELSE JsonString(character_serde_name(metadata.character)),
     costume      |-> JsonOption(metadata.costume, JsonString),
     isFavorite   |-> JsonBool(metadata.is_favorite),
     isNsfw       |-> JsonBool(metadata.is_nsfw),
     createdAt    |-> JsonDateTime(metadata.created_at),
     updatedAt    |-> JsonDateTime(metadata.updated_at),
     installDate  |-> JsonDateTime(metadata.install_date),
     profileIds   |-> JsonOption(metadata.profile_ids, JsonStrings),
     nexusModId   |-> JsonOption(metadata.nexus_mod_id, JsonNumber),
     nexusFileId  |-> JsonOption(metadata.nexus_file_id, JsonNumber),
     nexusVersion |-> JsonOption(metadata.nexus_version, JsonString)]

\* serde_json::from_str of a document that to_json has written
from_json(content) ==
    [title        |-> StringOf(content.title),
     description  |-> StringOf(content.description),
     author       |-> FromJsonOption(content.author, StringOf),
     version      |-> FromJsonOption(content.version, StringOf),
     tags         |-> StringsOf(content.tags),
     category     |-> CHOOSE c \in ModCategory : category_serde_name(c) = StringOf(content.category),
     character    |-> IF content.character = JsonNull THEN NoCharacter
                      ELSE CHOOSE c \in {all_characters[i] : i \in DOMAIN all_characters} :
                               character_serde_name(c) = StringOf(content.character),
     costume      |-> FromJsonOption(content.costume, StringOf),
     is_favorite  |-> content.isFavorite.bool,
     is_nsfw      |-> content.isNsfw.bool,
     created_at   |-> DateTimeOf(content.createdAt),
     updated_at   |-> DateTimeOf(content.updatedAt),
     install_date |-> DateTimeOf(content.installDate),
     profile_ids  |-> FromJsonOption(content.profileIds, StringsOf),
     nexus_mod_id |-> FromJsonOption(content.nexusModId, NumberOf),
     nexus_file_id |-> FromJsonOption(content.nexusFileId, NumberOf),
     nexus_version |-> FromJsonOption(content.nexusVersion, StringOf)]

\* a faulty variant: the list of profiles is not written
SaveWithoutProfiles(s, mod_id, metadata) ==
    [s EXCEPT !.meta = [i \in DOMAIN s.meta \cup {mod_id} |->
                           IF i = mod_id THEN to_json([metadata EXCEPT !.profile_ids = None])
                           ELSE s.meta[i]]]

\* the store: s.meta[id] is the document of <metadata-dir>/<id>.json
load_metadata(s, mod_id) ==
    IF mod_id \in DOMAIN s.meta THEN Some(from_json(s.meta[mod_id])) ELSE None

save_metadata(s, mod_id, metadata) ==
    [s EXCEPT !.meta = [i \in DOMAIN s.meta \cup {mod_id} |->
                           IF i = mod_id THEN to_json(metadata) ELSE s.meta[i]]]

delete_metadata(s, mod_id) ==
    [s EXCEPT !.meta = Restrict(@, DOMAIN @ \ {mod_id})]

\* ThumbnailService::get_thumbnail_path: <metadata-dir>/<id>_thumbnail.png
get_thumbnail_path(mod_id) ==
    << <<"m", "e", "t", "a", "d", "a", "t", "a">>,
       mod_id \o <<"_", "t", "h", "u", "m", "b", "n", "a", "i", "l", ".", "p", "n", "g">> >>

thumbnail_exists(s, mod_id) == mod_id \in s.thumbs

\* ThumbnailService::save_thumbnail
save_thumbnail(s, mod_id) == [s EXCEPT !.thumbs = @ \cup {mod_id}]

\* the copy of one thumbnail sidecar onto another (fs::copy in the metadata
\* directory), when the old one exists
copy_thumbnail(s, old_id, new_id) ==
    IF thumbnail_exists(s, old_id) THEN [s EXCEPT !.thumbs = @ \cup {new_id}] ELSE s

(***************************************************************************)
(* The scanner.                                                            *)
(***************************************************************************)
\* the companion of a .pak file with the given extension
Companion(pak_file_path, ext) ==
    join(parent(pak_file_path), file_stem(file_name(pak_file_path))[1] \o ext)

RECURSIVE CompanionsFrom(_, _, _)
CompanionsFrom(s, pak_file_path, i) ==
    IF i > Len(COMPANION_EXTENSIONS) THEN << >>
    ELSE (IF Exists(s, Companion(pak_file_path, COMPANION_EXTENSIONS[i]))
          THEN <<Companion(pak_file_path, COMPANION_EXTENSIONS[i])>>
          ELSE << >>) \o CompanionsFrom(s, pak_file_path, i + 1)

find_associated_files(s, pak_file_path) ==
    <<pak_file_path>> \o CompanionsFrom(s, pak_file_path, 1)

\* thumbnails_directory: <app data>/thumbnails, beside the metadata directory
thumbnails_directory == << <<"t", "h", "u", "m", "b", "n", "a", "i", "l", "s">> >>

\* the files of the metadata directory that hold a thumbnail
ThumbnailFiles(s) == {get_thumbnail_path(i) : i \in s.thumbs}

\* metadata_directory.join(format!("{}_thumbnail.png", mod_id)) of the scanner
new_thumbnail_path(mod_id) ==
    << <<"m", "e", "t", "a", "d", "a", "t", "a">>,
       mod_id \o <<"_", "t", "h", "u", "m", "b", "n", "a", "i", "l", ".", "p", "n", "g">> >>

ThumbnailExtensions ==
    << <<"w", "e", "b", "p">>, <<"p", "n", "g">>, <<"j", "p", "g">>, <<"j", "p", "e", "g">> >>

\* the first of the names base.<ext> that is in the thumbnails directory
FirstLegacy(s, bases) ==
    FindFirst(Flatten([e \in DOMAIN ThumbnailExtensions |->
                          [b \in DOMAIN bases |-> bases[b] \o <<".">> \o ThumbnailExtensions[e]]]),
              LAMBDA n : n \in s.legacy, 1)

\* the thumbnail named after the file, or after the file without "_P"
FindByFileName(s, stem) ==
    IF stem = None THEN None
    ELSE With(FirstLegacy(s, <<stem[1], Replace(stem[1], <<"_", "P">>, << >>)>>), LAMBDA n :
         IF n = None THEN None ELSE Some(join(thumbnails_directory, n[1])))

\* a faulty variant: the thumbnails directory is looked at first
FindLegacyFirst(s, mod_id, fname) ==
    With(FirstLegacy(s, <<mod_id>>), LAMBDA n :
    IF n # None THEN Some(join(thumbnails_directory, n[1]))
    ELSE IF new_thumbnail_path(mod_id) \in ThumbnailFiles(s)
    THEN Some(new_thumbnail_path(mod_id))
    ELSE FindByFileName(s, file_stem(fname)))

\* the thumbnail of a mod: the sidecar named by the identifier, else a file
\* of the thumbnails directory named by the identifier, else one named after
\* the file
find_thumbnail(s, mod_id, fname) ==
    IF new_thumbnail_path(mod_id) \in ThumbnailFiles(s) THEN Some(new_thumbnail_path(mod_id))
    ELSE With(FirstLegacy(s, <<mod_id>>), LAMBDA n :
         IF n # None THEN Some(join(thumbnails_directory, n[1]))
         ELSE FindByFileName(s, file_stem(fname)))

\* the metadata create_mod_info synthesizes for a file without a sidecar
default_metadata(file_path, clean_file_name, now) ==
    [title        |-> extract_mod_name(clean_file_name),
     description  |-> << >>,
     author       |-> None,
     version      |-> None,
     tags         |-> << >>,
     category     |-> detect_category_from_path(file_path, clean_file_name),
     character    |-> detect_character_from_path(file_path, clean_file_name),
     costume      |-> None,
     is_favorite  |-> FALSE,
     is_nsfw      |-> FALSE,
     created_at   |-> now,
     updated_at   |-> now,
     install_date |-> now,
     profile_ids  |-> None,
     nexus_mod_id |-> None,
     nexus_file_id |-> None,
     nexus_version |-> None]

\* the record create_mod_info builds from what it has gathered
ModInfo(s, mod_id, metadata, file_path, clean_file_name, is_enabled) ==
    [id          |-> mod_id,
     name        |-> metadata.title,
     category    |-> metadata.category,
     character   |-> metadata.character,
     enabled     |-> is_enabled,
     is_favorite |-> metadata.is_favorite,
     file_path   |-> file_path,
     thumbnail_path |-> find_thumbnail(s, mod_id, clean_file_name),
     metadata    |-> metadata,
     install_date |-> metadata.install_date,
     original_file_name |-> clean_file_name,
     associated_files |-> find_associated_files(s, file_path)]

\* load_metadata(..).ok().flatten().unwrap_or_else(default)
LoadedOrDefault(s, mod_id, file_path, clean_file_name, now) ==
    IF mod_id \in DOMAIN s.meta THEN from_json(s.meta[mod_id])
    ELSE default_metadata(file_path, clean_file_name, now)

create_mod_info(s, file_path, fname, is_enabled, now) ==
    IF ~Exists(s, file_path) \/ file_path \in s.denied THEN None
    ELSE With(Replace(fname, DisabledMarker, << >>), LAMBDA clean_file_name :
         With(generate_mod_id_from_path(file_path, clean_file_name), LAMBDA mod_id :
         Some(ModInfo(s, mod_id,
                      LoadedOrDefault(s, mod_id, file_path, clean_file_name, now),
                      file_path, clean_file_name, is_enabled))))

PathLess(p, q) == StrLess(path_str(p), path_str(q))

\* the least of a set of paths, in the order of their strings
LeastPath(S) == CHOOSE p \in S : \A q \in S \ {p} : PathLess(p, q)

\* the elements of a set of paths as a sequence, in the order of their strings
RECURSIVE SortedFrom(_, _)
SortedFrom(S, m) == IF S = {m} THEN <<m>> ELSE <<m>> \o SortedFrom(S \ {m}, LeastPath(S \ {m}))

SortedPaths(S) == IF S = {} THEN << >> ELSE SortedFrom(S, LeastPath(S))

\* WalkDir::new(dir_path): the mod files below dir_path.  The order in which
\* the platform lists a directory is not specified; the model lists by name.
\* An entry that is an error, as for a directory that cannot be listed, is
\* dropped (filter_map(|e| e.ok())), and with it what is below the directory.
WalkModFiles(s, dir_path) ==
    SortedPaths({p \in DOMAIN s.files :
                    /\ IsUnder(p, dir_path)
                    /\ is_mod_file(p)
                    /\ \A d \in Prefixes(parent(p)) \cap s.denied : ~(d = dir_path \/ IsUnder(d, dir_path))})

\* the visit without the set of identifiers, a faulty variant: only a path
\* met before is skipped
VisitWithoutIds(acc, path, info) ==
    IF path \in acc.processed_paths \/ info = None
    THEN acc
    ELSE [mods            |-> Append(acc.mods, info[1]),
          processed_paths |-> acc.processed_paths \cup {path},
          processed_ids   |-> acc.processed_ids \cup {info[1].id}]

\* one walked file: acc = [mods, processed_paths, processed_ids]
Visit(acc, path, info) ==
    IF \/ path \in acc.processed_paths
       \/ info = None
       \/ info[1].id \in acc.processed_ids
    THEN acc
    ELSE [mods            |-> Append(acc.mods, info[1]),
          processed_paths |-> acc.processed_paths \cup {path},
          processed_ids   |-> acc.processed_ids \cup {info[1].id}]

\* the loop of scan_directory_with_deduplication from the i-th walked file on
RECURSIVE ScanFrom(_, _, _, _, _, _)
ScanFrom(s, walk, i, acc, is_enabled, now) ==
    IF i > Len(walk) THEN acc
    ELSE ScanFrom(s, walk, i + 1,
                  Visit(acc, walk[i],
                        create_mod_info(s, walk[i], file_name(walk[i]), is_enabled, now)),
                  is_enabled, now)

scan_directory_with_deduplication(s, dir_path, acc, is_enabled, now) ==
    ScanFrom(s, WalkModFiles(s, dir_path), 1, acc, is_enabled, now)

\* where m goes among the sorted rest: after every name that is not greater
InsertAt(rest, m, k) == SubSeq(rest, 1, k) \o <<m>> \o SubSeq(rest, k + 1, Len(rest))

InsertByName(rest, m) ==
    InsertAt(rest, m, Cardinality({i \in 1..Len(rest) : ~StrLess(m.name, rest[i].name)}))

\* Vec::sort_by(|a, b| a.name.cmp(&b.name)): stable
RECURSIVE sort_by_name(_)
sort_by_name(mods) ==
    IF mods = << >> THEN << >>
    ELSE InsertByName(sort_by_name(SubSeq(mods, 1, Len(mods) - 1)), mods[Len(mods)])

\* get_all_mods of a service with the given two roots: the records of the two
\* scans, the active root first, sorted by name, on the disk with both roots
\* ensured
get_all_mods_of(self, s, now) ==
    Try(ensure_directory_exists(s, self.mods_directory), LAMBDA s1 :
    Try(ensure_directory_exists(s1, self.disabled_mods_directory), LAMBDA s2 :
    Ok(s2, sort_by_name(
               scan_directory_with_deduplication(s2, self.disabled_mods_directory,
                   scan_directory_with_deduplication(s2, self.mods_directory,
                       [mods |-> << >>, processed_paths |-> {}, processed_ids |-> {}],
                       TRUE, now),
                   FALSE, now).mods))))

\* get_all_mods of the service the commands run on
get_all_mods(s, now) ==
    get_all_mods_of([mods_directory |-> mods_directory,
                     disabled_mods_directory |-> disabled_mods_directory], s, now)

\* the first record with the identifier, an Option
RECURSIVE FirstWithId(_, _, _)
FirstWithId(mods, mod_id, i) ==
    IF i > Len(mods) THEN None
    ELSE IF mods[i].id = mod_id THEN Some(mods[i])
    ELSE FirstWithId(mods, mod_id, i + 1)

\* find_mod_by_id: Ok(s, Option)
find_mod_by_id(s, mod_id, now) ==
    TryValue(get_all_mods(s, now), LAMBDA s1, mods : Ok(s1, FirstWithId(mods, mod_id, 1)))

(***************************************************************************)
(* The operations of ModService.  Each is a function of the disk state s,  *)
(* its arguments, the faults f the platform answers with, and the time:    *)
(* it returns Ok(s', value) or Err(s'), s' being the disk it leaves.       *)
(*                                                                         *)
(* A fault record f says which platform calls are refused during one       *)
(* invocation:                                                             *)
(*   file_op    : the i-th rename/remove of the operation's file loop      *)
(*                fails (0: none),                                         *)
(*   dir_rename : renaming a directory is refused (a locked folder),       *)
(*   copy       : fs::copy fails,                                          *)
(*   remove_dir : the number of consecutive remove_dir_all calls that fail,*)
(*   save       : the i-th save_metadata of the invocation fails (0: none).*)
(***************************************************************************)
NoFault == [file_op |-> 0, dir_rename |-> FALSE, copy |-> FALSE, remove_dir |-> 0, save |-> 0]

\* the files outside the managed roots that an install can name, and the
\* content of each: a file is told from another by where it was copied from
D1 == <<"d", "1">>
D2 == <<"d", "2">>
APak == <<"a", ".", "p", "a", "k">>
BPak == <<"b", ".", "p", "a", "k">>
AUcas == <<"a", ".", "u", "c", "a", "s">>
RTxt == <<"r", ".", "t", "x", "t">>
ExternalFiles == {<<D1, APak>>, <<D1, AUcas>>, <<D2, APak>>, <<D1, BPak>>, <<D1, RTxt>>}

\* fs::copy from a file outside the roots
copy_in(s, from, to, f) ==
    IF f.copy \/ from \notin ExternalFiles THEN Err(s) ELSE WriteFile(s, to, from)

\* PathBuf::join of a relative path: an empty name adds no component
join_rel(p, rel) == p \o SelectSeq(rel, NonEmpty)

\* self.save_metadata(..)? as the n-th save of the invocation
SaveNth(s, mod_id, metadata, n, f) ==
    IF f.save = n THEN Err(s) ELSE Ok(save_metadata(s, mod_id, metadata), Unit)

\* the loop copying the companions (.ucas, .utoc) of an installed file
RECURSIVE CopyCompanions(_, _, _, _, _)
CopyCompanions(s, file_path, folder_path, i, f) ==
    IF i > Len(COMPANION_EXTENSIONS) THEN Ok(s, Unit)
    ELSE IF Companion(file_path, COMPANION_EXTENSIONS[i]) \in ExternalFiles
    THEN Try(copy_in(s, Companion(file_path, COMPANION_EXTENSIONS[i]),
                     Companion(join(folder_path, file_name(file_path)), COMPANION_EXTENSIONS[i]),
                     f),
             LAMBDA s1 : CopyCompanions(s1, file_path, folder_path, i + 1, f))
    ELSE CopyCompanions(s, file_path, folder_path, i + 1, f)

\* Option::ok_or_else
ok_or_else(s, option) == IF option = None THEN Err(s) ELSE Ok(s, option[1])

install_mod(s, file_path, f, now) ==
    IF ~is_mod_file(file_path) THEN Err(s)
    ELSE Try(copy_in(s, file_path, join(mods_directory, file_name(file_path)), f), LAMBDA s1 :
         ok_or_else(s1, create_mod_info(s1, join(mods_directory, file_name(file_path)),
                                        file_name(file_path), TRUE, now)))

\* the copies both folder installs begin with: the file, then its companions
CopyIntoFolder(s, file_path, folder_path, f) ==
    Try(ensure_directory_exists(s, folder_path), LAMBDA s1 :
    Try(copy_in(s1, file_path, join(folder_path, file_name(file_path)), f), LAMBDA s2 :
    CopyCompanions(s2, file_path, folder_path, 1, f)))

install_mod_to_folder(s, file_path, folder_name, f, now) ==
    IF ~is_mod_file(file_path) THEN Err(s)
    ELSE Try(CopyIntoFolder(s, file_path, join_rel(mods_directory, folder_name), f), LAMBDA s1 :
         TryValue(ok_or_else(s1, create_mod_info(s1,
                      join(join_rel(mods_directory, folder_name), file_name(file_path)),
                      file_name(file_path), TRUE, now)),
             LAMBDA s2, mod_info :
         Try(SaveNth(s2, mod_info.id, mod_info.metadata, 1, f), LAMBDA s3 :
         Ok(s3, mod_info))))

install_mod_to_folder_with_metadata(s, file_path, folder_name, metadata, f, now) ==
    IF ~is_mod_file(file_path) THEN Err(s)
    ELSE Try(CopyIntoFolder(s, file_path, join_rel(mods_directory, folder_name), f), LAMBDA s1 :
         With(join(join_rel(mods_directory, folder_name), file_name(file_path)),
              LAMBDA dest_path :
         With(Replace(file_name(file_path), DisabledMarker, << >>), LAMBDA clean_file_name :
         With(generate_mod_id_from_path(dest_path, clean_file_name), LAMBDA mod_id :
         Try(SaveNth(s1, mod_id, metadata, 1, f), LAMBDA s2 :
         Ok(s2, ModInfo(s2, mod_id, metadata, dest_path, clean_file_name, TRUE)))))))

\* a faulty variant: the first of the files is moved and no other
MovePrimaryInto(s, paths, i, dest_dir, f) ==
    IF paths = << >> THEN Ok(s, Unit)
    ELSE Try(fs_rename(s, paths[1], join(dest_dir, file_name(paths[1]))),
             LAMBDA s1 : Ok(s1, Unit))

\* the loop `for file_path in files { fs::rename(file_path, dest_dir.join(name))? }`
RECURSIVE MoveFilesInto(_, _, _, _, _)
MoveFilesInto(s, paths, i, dest_dir, f) ==
    IF i > Len(paths) THEN Ok(s, Unit)
    ELSE IF f.file_op = i THEN Err(s)
    ELSE Try(fs_rename(s, paths[i], join(dest_dir, file_name(paths[i]))),
             LAMBDA s1 : MoveFilesInto(s1, paths, i + 1, dest_dir, f))

\* `.find_mod_by_id(mod_id)?.ok_or("Mod not found")?`
FoundMod(s, mod_id, now) ==
    TryValue(find_mod_by_id(s, mod_id, now), LAMBDA s1, found : ok_or_else(s1, found))

enable_mod(s, mod_id, enabled, f, now) ==
    TryValue(FoundMod(s, mod_id, now), LAMBDA s1, mod_info :
    Try(ensure_directory_exists(s1, IF enabled THEN mods_directory ELSE disabled_mods_directory),
        LAMBDA s2 :
    MoveFilesInto(s2, mod_info.associated_files, 1,
                  IF enabled THEN mods_directory ELSE disabled_mods_directory, f)))

\* is_folder_empty: no file anywhere below path
is_folder_empty(s, path) == ~\E p \in DOMAIN s.files : IsUnder(p, path)

\* the folder names cleanup_empty_mod_folders keeps: the sanitized display
\* names of the roster, compared without regard to ASCII case
CharacterFolderNames ==
    {to_lowercase(sanitize_folder_name(character_to_string(all_characters[i]))) :
        i \in 1..Len(all_characters)}

\* the folders cleanup_empty_mod_folders collects
folders_to_remove(s) ==
    {d \in s.dirs : /\ IsUnder(d, mods_directory)
                    /\ parent(d) # mods_directory
                    /\ to_lowercase(file_name(d)) \notin CharacterFolderNames
                    /\ is_folder_empty(s, d)}

\* the loop removing the collected folders; n is removed_count.  A folder that
\* cannot be removed is logged and not counted.
RECURSIVE RemoveFolders(_, _, _, _)
RemoveFolders(s, folders, i, n) ==
    IF i > Len(folders) THEN Ok(s, n)
    ELSE IF remove_dir_all(s, folders[i]).ok
    THEN RemoveFolders(remove_dir_all(s, folders[i]).s, folders, i + 1, n + 1)
    ELSE RemoveFolders(s, folders, i + 1, n)

\* a faulty variant: the collected folders are removed parents first
CleanupParentsFirst(s) == RemoveFolders(s, SortedPaths(folders_to_remove(s)), 1, 0)

\* cleanup_empty_mod_folders: the collected folders, sorted in reverse, are
\* removed with what is below them
cleanup_empty_mod_folders(s) ==
    With(SortedPaths(folders_to_remove(s)), LAMBDA sorted :
    RemoveFolders(s, [i \in 1..Len(sorted) |-> sorted[Len(sorted) + 1 - i]], 1, 0))

\* the loop `for file_path in files { fs::remove_file(file_path)? }`
RECURSIVE RemoveFiles(_, _, _, _)
RemoveFiles(s, paths, i, f) ==
    IF i > Len(paths) THEN Ok(s, Unit)
    ELSE IF f.file_op = i THEN Err(s)
    ELSE Try(remove_file(s, paths[i]), LAMBDA s1 : RemoveFiles(s1, paths, i + 1, f))

\* `if let Some(thumbnail_path) = mod_info.thumbnail_path { remove_file }`
RemoveThumbnail(s, mod_info) ==
    IF mod_info.thumbnail_path # None THEN [s EXCEPT !.thumbs = @ \ {mod_info.id}] ELSE s

delete_mod(s, mod_id, f, now) ==
    TryValue(FoundMod(s, mod_id, now), LAMBDA s1, mod_info :
    Try(RemoveFiles(s1, mod_info.associated_files, 1, f), LAMBDA s2 :
    Ok(cleanup_empty_mod_folders(RemoveThumbnail(delete_metadata(s2, mod_id), mod_info)).s, Unit)))

\* `if let Some(ref character) = mod_info.character`
HasCharacter(character) == character # NoCharacter

\* the folder organize_loose_mods moves a loose mod to
OrganizedFolder(mod_info) ==
    join_rel(mods_directory,
             <<category_to_string(mod_info.category)>>
             \o (IF HasCharacter(mod_info.character)
                 THEN <<character_to_string(mod_info.character)>> ELSE << >>)
             \o <<sanitize_folder_name(mod_info.name)>>)

\* the loop of organize_loose_mods over the scanned records; n counts the moved
RECURSIVE OrganizeFrom(_, _, _, _, _)
OrganizeFrom(s, mods, i, n, f) ==
    IF i > Len(mods) THEN Ok(s, n)
    ELSE IF ~mods[i].enabled \/ parent(mods[i].file_path) # mods_directory
    THEN OrganizeFrom(s, mods, i + 1, n, f)
    ELSE With(OrganizedFolder(mods[i]), LAMBDA target_folder :
         Try(create_dir_all(s, target_folder), LAMBDA s1 :
         Try(MoveFilesInto(s1, mods[i].associated_files, 1, target_folder, f), LAMBDA s2 :
         OrganizeFrom(s2, mods, i + 1, n + 1, f))))

organize_loose_mods(s, f, now) ==
    TryValue(get_all_mods(s, now), LAMBDA s1, all_mods :
    TryValue(OrganizeFrom(s1, all_mods, 1, 0, f), LAMBDA s2, organized_count :
    Ok(IF organized_count > 0 THEN cleanup_empty_mod_folders(s2).s ELSE s2, organized_count)))

\* delete_directory_with_retry from the given attempt on
RECURSIVE DeleteAttempt(_, _, _, _, _)
DeleteAttempt(s, path, attempt, max_retries, f) ==
    IF attempt >= max_retries THEN Err(s)
    ELSE IF attempt >= f.remove_dir /\ IsDir(s, path) THEN remove_dir_all(s, path)
    ELSE DeleteAttempt(s, path, attempt + 1, max_retries, f)

delete_directory_with_retry(s, path, max_retries, f) ==
    DeleteAttempt(s, path, 0, max_retries, f)

\* a faulty variant: only the .pak files of the walk are copied
CopyPakEntry(s, path, dest_path, f) ==
    IF IsDir(s, path) THEN create_dir_all(s, dest_path)
    ELSE IF ~is_mod_file(path) THEN Ok(s, Unit)
    ELSE Try(create_dir_all(s, parent(dest_path)), LAMBDA s1 :
         IF f.copy THEN Err(s1) ELSE fs_copy(s1, path, dest_path))

\* one entry of the walk copied: a directory created, a file copied
CopyEntry(s, path, dest_path, f) ==
    IF IsDir(s, path) THEN create_dir_all(s, dest_path)
    ELSE Try(create_dir_all(s, parent(dest_path)), LAMBDA s1 :
         IF f.copy THEN Err(s1) ELSE fs_copy(s1, path, dest_path))

\* the walk of copy_directory_recursive from the i-th entry on
RECURSIVE CopyEntries(_, _, _, _, _, _)
CopyEntries(s, entries, i, source, destination, f) ==
    IF i > Len(entries) THEN Ok(s, Unit)
    ELSE Try(CopyEntry(s, entries[i], Moved(entries[i], source, destination), f),
             LAMBDA s1 : CopyEntries(s1, entries, i + 1, source, destination, f))

\* copy_directory_recursive.  The walk lists a directory before what is in
\* it.  A destination inside the source makes the walk descend into its own
\* output until the platform refuses the path: an error.
copy_directory_recursive(s, source, destination, f) ==
    Try(create_dir_all(s, destination), LAMBDA s1 :
    IF IsUnder(destination, source) THEN Err(s1)
    ELSE CopyEntries(s1, SortedPaths({p \in Entries(s1) : p = source \/ IsUnder(p, source)}),
                     1, source, destination, f))

\* Path::extension() == Some("pak")
HasPakExtension(p) == extension(file_name(p)) = Some(<<"p", "a", "k">>)

\* the .pak files directly in a folder
PaksIn(s, dir) == {p \in read_dir(s, dir) : HasPakExtension(p)}

\* the sidecar migration of merge_duplicate_folders, every error ignored: the
\* metadata goes to the new identifier, the thumbnail is copied, the old
\* metadata is deleted
MigrateIgnoringErrors(s, old_id, new_id) ==
    IF load_metadata(s, old_id) = None THEN s
    ELSE delete_metadata(copy_thumbnail(save_metadata(s, new_id, load_metadata(s, old_id)[1]),
                                        old_id, new_id),
                         old_id)

\* the sidecar migration after merge_duplicate_folders has moved one mod
\* folder: the first .pak listed in the moved folder, and no other
MigrateMovedFolder(s, source_mod_folder, target_mod_folder) ==
    IF PaksIn(s, target_mod_folder) = {} THEN s
    ELSE With(LeastPath(PaksIn(s, target_mod_folder)), LAMBDA pak_path :
         MigrateIgnoringErrors(s,
             generate_mod_id_from_path(join(source_mod_folder, file_name(pak_path)),
                                       file_name(pak_path)),
             generate_mod_id_from_path(pak_path, file_name(pak_path))))

\* the loop over the children of one source character folder
RECURSIVE MergeEntries(_, _, _, _, _)
MergeEntries(s, entries, i, target_folder, f) ==
    IF i > Len(entries) THEN Ok(s, Unit)
    ELSE IF \/ ~IsDir(s, entries[i])
            \/ Exists(s, join(target_folder, file_name(entries[i])))
    THEN MergeEntries(s, entries, i + 1, target_folder, f)
    ELSE IF f.dir_rename THEN Err(s)
    ELSE Try(fs_rename(s, entries[i], join(target_folder, file_name(entries[i]))),
             LAMBDA s1 :
                 MergeEntries(MigrateMovedFolder(s1, entries[i],
                                                 join(target_folder, file_name(entries[i]))),
                              entries, i + 1, target_folder, f))

\* the loop over the folders of one group of same-normalized names; n is
\* merged_count
RECURSIVE MergeSources(_, _, _, _, _, _)
MergeSources(s, n, paths, i, target_folder, f) ==
    IF i > Len(paths) THEN Ok(s, n)
    ELSE IF paths[i] = target_folder THEN MergeSources(s, n, paths, i + 1, target_folder, f)
    ELSE Try(MergeEntries(s, SortedPaths(read_dir(s, paths[i])), 1, target_folder, f),
             LAMBDA s1 :
         Try(delete_directory_with_retry(s1, paths[i], 3, f), LAMBDA s2 :
         MergeSources(s2, n + 1, paths, i + 1, target_folder, f)))

\* folder_name.replace("-", "").replace(" ", "").to_lowercase()
normalized(folder_name) ==
    to_lowercase(Replace(Replace(folder_name, <<"-">>, << >>), <<" ">>, << >>))

HasHyphen(p) == Contains(file_name(p), <<"-">>)

\* the folders of char_paths that normalize to the same name as p
SameNamed(char_paths, p) ==
    SelectSeq(char_paths, LAMBDA q : normalized(file_name(q)) = normalized(file_name(p)))

\* a faulty variant: the first folder of the group, hyphenated or not
TargetFirst(paths) == paths[1]

\* the folder a group is merged into: the first hyphenated one, else the first
TargetOf(paths) == unwrap_or(FindFirst(paths, HasHyphen, 1), paths[1])

\* the character folders of a category folder, as listed
CharacterFolders(s, category_path) ==
    SortedPaths({d \in read_dir(s, category_path) : IsDir(s, d)})

\* one entry of the map of normalized names, met at its first folder
MergeGroup(s, n, paths, head, f) ==
    IF Len(paths) > 1 /\ paths[1] = head
    THEN MergeSources(s, n, paths, 1, TargetOf(paths), f)
    ELSE Ok(s, n)

\* the groups of one category folder, each merged into its target
RECURSIVE MergeGroups(_, _, _, _, _)
MergeGroups(s, n, char_paths, i, f) ==
    IF i > Len(char_paths) THEN Ok(s, n)
    ELSE TryValue(MergeGroup(s, n, SameNamed(char_paths, char_paths[i]), char_paths[i], f),
                  LAMBDA s1, n1 : MergeGroups(s1, n1, char_paths, i + 1, f))

RECURSIVE MergeCategories(_, _, _, _, _)
MergeCategories(s, n, categories, i, f) ==
    IF i > Len(categories) THEN Ok(s, n)
    ELSE TryValue(MergeGroups(s, n, CharacterFolders(s, categories[i]), 1, f),
                  LAMBDA s1, n1 : MergeCategories(s1, n1, categories, i + 1, f))

\* merge_duplicate_folders.  A directory is listed in the order of its names.
merge_duplicate_folders(s, f, now) ==
    IF ~IsDir(s, mods_directory) THEN Err(s)
    ELSE MergeCategories(s, 0, CharacterFolders(s, mods_directory), 1, f)

\* the loop `let _ = fs::rename(associated, new_folder.join(name))`
RECURSIVE MoveIgnoringErrors(_, _, _, _)
MoveIgnoringErrors(s, paths, i, dest_dir) ==
    IF i > Len(paths) THEN s
    ELSE MoveIgnoringErrors(fs_rename(s, paths[i], join(dest_dir, file_name(paths[i]))).s,
                            paths, i + 1, dest_dir)

\* the associated files with the stem of the mod's own file
SameStem(old_mod) ==
    SelectSeq(old_mod.associated_files,
              LAMBDA p : file_stem(file_name(p)) = file_stem(file_name(old_mod.file_path)))

\* update_metadata, pak_count > 1: only the mod's own files move
MoveOwnFiles(s, old_mod, new_folder, f) ==
    Try(create_dir_all(s, new_folder), LAMBDA s1 :
    IF f.file_op = 1 THEN Err(s1)
    ELSE Try(fs_rename(s1, old_mod.file_path, join(new_folder, file_name(old_mod.file_path))),
             LAMBDA s2 :
         Ok(MoveIgnoringErrors(s2, SameStem(old_mod), 1, new_folder), Unit)))

\* the fallback without its second step, a faulty variant: the folder is
\* copied and the source is left where it was
CopyKeepingSource(renamed, s, parent_dir, new_folder, f) ==
    IF renamed.ok THEN renamed
    ELSE copy_directory_recursive(s, parent_dir, new_folder, f)

\* `match fs::rename(..) { Ok => .., Err => copy_directory_recursive?;
\* delete_directory_with_retry? }`
OrElseCopy(renamed, s, parent_dir, new_folder, f) ==
    IF renamed.ok THEN renamed
    ELSE Try(copy_directory_recursive(s, parent_dir, new_folder, f), LAMBDA s1 :
         delete_directory_with_retry(s1, parent_dir, 3, f))

\* update_metadata, pak_count <= 1: the folder moves, by rename or by copy
\* and delete
MoveFolder(s, parent_dir, new_folder, f) ==
    Try(create_dir_all(s, parent(new_folder)), LAMBDA s1 :
    OrElseCopy(IF f.dir_rename THEN Err(s1) ELSE fs_rename(s1, parent_dir, new_folder),
               s1, parent_dir, new_folder, f))

\* the migration in the other order, a faulty variant: the old metadata is
\* deleted before the new is saved
MigrateDeletingFirst(s, mod_id, new_mod_id, f) ==
    IF load_metadata(s, mod_id) = None THEN Ok(s, Unit)
    ELSE Try(SaveNth(delete_metadata(s, mod_id), new_mod_id, load_metadata(s, mod_id)[1], 2, f), LAMBDA s1 :
         IF thumbnail_exists(s1, mod_id) /\ f.copy THEN Err(s1)
         ELSE Ok(copy_thumbnail(s1, mod_id, new_mod_id), Unit))

\* update_metadata after the move: the metadata goes to the new identifier,
\* the thumbnail is copied, the old metadata is deleted
MigrateSidecars(s, mod_id, new_mod_id, f) ==
    IF load_metadata(s, mod_id) = None THEN Ok(s, Unit)
    ELSE Try(SaveNth(s, new_mod_id, load_metadata(s, mod_id)[1], 2, f), LAMBDA s1 :
         IF thumbnail_exists(s1, mod_id) /\ f.copy THEN Err(s1)
         ELSE Ok(delete_metadata(copy_thumbnail(s1, mod_id, new_mod_id), mod_id), Unit))

\* ... and the record is made from the new path
MigrateAfterMove(s, mod_id, mod_file_path, new_folder, f, now) ==
    With(join(new_folder, file_name(mod_file_path)), LAMBDA new_file_path :
    With(file_name(mod_file_path), LAMBDA file_name_str :
    Try(MigrateSidecars(s, mod_id, generate_mod_id_from_path(new_file_path, file_name_str), f),
        LAMBDA s1 :
    ok_or_else(s1, create_mod_info(s1, new_file_path, file_name_str,
                                   ~ends_with(file_name_str, DisabledMarker), now)))))

\* the record update_metadata returns for a mod the scan does not report
MinimalInfo(mod_id, metadata) ==
    [id          |-> mod_id,
     name        |-> metadata.title,
     category    |-> metadata.category,
     character   |-> metadata.character,
     enabled     |-> TRUE,
     is_favorite |-> metadata.is_favorite,
     file_path   |-> << >>,
     thumbnail_path |-> None,
     metadata    |-> metadata,
     install_date |-> metadata.install_date,
     original_file_name |-> metadata.title,
     associated_files |-> << >>]

\* the folder update_metadata expects a mod with this metadata to be in
ExpectedFolder(metadata) ==
    join_rel(mods_directory,
             <<sanitize_folder_name(category_to_string(metadata.category))>>
             \o (IF HasCharacter(metadata.character)
                 THEN <<sanitize_folder_name(character_to_string(metadata.character))>>
                 ELSE << >>)
             \o <<sanitize_folder_name(metadata.title)>>)

\* a faulty variant: the other .pak files of the folder are not counted
PakCountOwn(s, dir) == IF PaksIn(s, dir) = {} THEN 0 ELSE 1

\* the number of .pak files directly in a folder
pak_count(s, dir) == Cardinality(PaksIn(s, dir))

\* the folder check of update_metadata, for a mod the scan reports
Relocate(s, mod_id, old_mod, parent_dir, new_folder, f, now) ==
    IF parent_dir # mods_directory /\ parent_dir # new_folder
    THEN Try(IF pak_count(s, parent_dir) > 1
             THEN MoveOwnFiles(s, old_mod, new_folder, f)
             ELSE MoveFolder(s, parent_dir, new_folder, f),
             LAMBDA s1 : MigrateAfterMove(s1, mod_id, old_mod.file_path, new_folder, f, now))
    ELSE FoundMod(s, mod_id, now)

\* update_metadata from `match old_mod_option` on
UpdateFound(s, mod_id, metadata, old_mod_option, f, now) ==
    IF old_mod_option = None THEN Ok(s, MinimalInfo(mod_id, metadata))
    ELSE Relocate(s, mod_id, old_mod_option[1], parent(old_mod_option[1].file_path),
                  ExpectedFolder(metadata), f, now)

update_metadata(s, mod_id, metadata, f, now) ==
    Try(SaveNth(s, mod_id, metadata, 1, f), LAMBDA s1 :
    TryValue(get_all_mods(s1, now), LAMBDA s2, mods :
    UpdateFound(s2, mod_id, metadata, FirstWithId(mods, mod_id, 1), f, now)))


\* the thumbnail of a migrated mod: copied to the new identifier and the old
\* one removed; a failed copy is logged and leaves both as they are
MigrateThumbnail(s, old_id, new_id, f) ==
    IF thumbnail_exists(s, old_id) /\ ~f.copy
    THEN [s EXCEPT !.thumbs = (@ \cup {new_id}) \ {old_id}]
    ELSE s

\* a faulty variant: the legacy metadata is copied whenever it exists, onto
\* whatever is there, and is kept
MigrateOneAgain(s, old_id, new_id, n, f) ==
    IF load_metadata(s, old_id) = None THEN Ok(s, n)
    ELSE Try(SaveNth(s, new_id, load_metadata(s, old_id)[1], n + 1, f), LAMBDA s1 :
         Ok(MigrateThumbnail(s1, old_id, new_id, f), n + 1))

\* one turn of the loop of migrate_metadata_to_path_ids, for a mod with the
\* legacy identifier old_id and the identifier new_id; n counts the migrated
MigrateOne(s, old_id, new_id, n, f) ==
    IF old_id = new_id THEN Ok(s, n)
    ELSE IF load_metadata(s, new_id) # None THEN Ok(s, n)
    ELSE IF load_metadata(s, old_id) = None THEN Ok(s, n)
    ELSE Try(SaveNth(s, new_id, load_metadata(s, old_id)[1], n + 1, f), LAMBDA s1 :
         Ok(delete_metadata(MigrateThumbnail(s1, old_id, new_id, f), old_id), n + 1))

\* the legacy identifier of a scanned file: of its name without the marker
LegacyId(file_path) ==
    generate_mod_id(Replace(file_name(file_path), DisabledMarker, << >>))

RECURSIVE MigrateFrom(_, _, _, _, _)
MigrateFrom(s, mods, i, n, f) ==
    IF i > Len(mods) THEN Ok(s, n)
    ELSE TryValue(MigrateOne(s, LegacyId(mods[i].file_path),
                             generate_mod_id_from_path(
                                 mods[i].file_path,
                                 Replace(file_name(mods[i].file_path), DisabledMarker, << >>)),
                             n, f),
                  LAMBDA s1, migrated_count : MigrateFrom(s1, mods, i + 1, migrated_count, f))

migrate_metadata_to_path_ids(s, f, now) ==
    TryValue(get_all_mods(s, now), LAMBDA s1, all_mods : MigrateFrom(s1, all_mods, 1, 0, f))
(***************************************************************************)
(* The state machine.  The service object is rebuilt for every command and *)
(* holds only the three directory paths, so the state of the program is    *)
(* the disk.  `now` is the clock: it advances by one with every command    *)
(* and is the value Utc::now() gives during it.  `last` records the last   *)
(* completed command: its name, arguments and faults, its result, the disk *)
(* before it and, for a repetition, the disk before the first attempt.     *)
(***************************************************************************)
VARIABLES files, dirs, meta, thumbs, now, last, tasks

vars == <<files, dirs, meta, thumbs, now, last, tasks>>

\* denied: the directories the platform refuses to list and the files it
\* refuses to stat, none unless a command is made with some; legacy: the
\* thumbnails directory, empty unless a command is made with one
Disk ==
    [files |-> files, dirs |-> dirs, meta |-> meta, thumbs |-> thumbs, denied |-> {},
     legacy |-> {}]

EmptyDisk ==
    [files |-> << >>, dirs |-> {mods_directory, disabled_mods_directory},
     meta |-> << >>, thumbs |-> {}, denied |-> {}, legacy |-> {}]

\* tasks: the commands running concurrently, none unless some are started
NoTasks == << >>

NoCall ==
    [op |-> "none", args |-> << >>, f |-> NoFault, ok |-> TRUE, ret |-> << >>,
     pre |-> EmptyDisk, at |-> 0, first |-> << >>]

Init ==
    /\ files = EmptyDisk.files
    /\ dirs = EmptyDisk.dirs
    /\ meta = EmptyDisk.meta
    /\ thumbs = EmptyDisk.thumbs
    /\ now = 0
    /\ tasks = NoTasks
    /\ last = NoCall

\* the command by name
Run(op, args, s, f, t) ==
    CASE op = "install_mod" -> install_mod(s, args.file_path, f, t)
      [] op = "install_mod_to_folder" ->
             install_mod_to_folder(s, args.file_path, args.folder_name, f, t)
      [] op = "install_mod_to_folder_with_metadata" ->
             install_mod_to_folder_with_metadata(s, args.file_path, args.folder_name,
                                                 args.metadata, f, t)
      [] op = "enable_mod" -> enable_mod(s, args.mod_id, args.enabled, f, t)
      [] op = "delete_mod" -> delete_mod(s, args.mod_id, f, t)
      [] op = "update_metadata" -> update_metadata(s, args.mod_id, args.metadata, f, t)
      [] op = "organize_loose_mods" -> organize_loose_mods(s, f, t)
      [] op = "merge_duplicate_folders" -> merge_duplicate_folders(s, f, t)
      [] op = "migrate_metadata_to_path_ids" -> migrate_metadata_to_path_ids(s, f, t)
      [] op = "cleanup_empty_mod_folders" -> cleanup_empty_mod_folders(s)
      [] op = "save_thumbnail" -> Ok(save_thumbnail(s, args.mod_id), get_thumbnail_path(args.mod_id))

\* what a command has returned, under its name: nothing, when it is an error
Returns(op, r) == IF r.ok THEN [o \in {op} |-> r.ret[1]] ELSE << >>

\* a command returns: the disk it leaves, the clock advanced, the call recorded
Return(op, args, f, r, first) ==
    /\ files' = r.s.files
    /\ dirs' = r.s.dirs
    /\ meta' = r.s.meta
    /\ thumbs' = r.s.thumbs
    /\ now' = now + 1
    /\ tasks' = tasks
    /\ last' = [op |-> op, args |-> args, f |-> f, ok |-> r.ok, ret |-> Returns(op, r),
                pre |-> Disk, at |-> now, first |-> first]

Range(seq) == {seq[i] : i \in DOMAIN seq}

\* the records and the identifiers a caller has from the scan
Scan(s, t) == get_all_mods(s, t).ret[1]
Records(s, t) == Range(Scan(s, t))
ScanIds == {m.id : m \in Records(Disk, now)}

InstallMod(Sources, Faults) ==
    /\ now < MaxOps
    /\ \E file_path \in Sources, f \in Faults :
           Return("install_mod", [file_path |-> file_path], f,
                  install_mod(Disk, file_path, f, now), << >>)

InstallModToFolder(Sources, Folders, Faults) ==
    /\ now < MaxOps
    /\ \E file_path \in Sources, folder_name \in Folders, f \in Faults :
           Return("install_mod_to_folder",
                  [file_path |-> file_path, folder_name |-> folder_name], f,
                  install_mod_to_folder(Disk, file_path, folder_name, f, now), << >>)

InstallModToFolderWithMetadata(Sources, Folders, Metadata, Faults) ==
    /\ now < MaxOps
    /\ \E file_path \in Sources, folder_name \in Folders, metadata \in Metadata, f \in Faults :
           Return("install_mod_to_folder_with_metadata",
                  [file_path |-> file_path, folder_name |-> folder_name, metadata |-> metadata],
                  f,
                  install_mod_to_folder_with_metadata(Disk, file_path, folder_name, metadata,
                                                      f, now),
                  << >>)

EnableMod(Faults) ==
    /\ now < MaxOps
    /\ \E mod_id \in ScanIds, enabled \in BOOLEAN, f \in Faults :
           Return("enable_mod", [mod_id |-> mod_id, enabled |-> enabled], f,
                  enable_mod(Disk, mod_id, enabled, f, now), << >>)

DeleteMod(Faults) ==
    /\ now < MaxOps
    /\ \E mod_id \in ScanIds, f \in Faults :
           Return("delete_mod", [mod_id |-> mod_id], f,
                  delete_mod(Disk, mod_id, f, now), << >>)

UpdateMetadata(Metadata, Faults) ==
    /\ now < MaxOps
    /\ \E mod_id \in ScanIds, metadata \in Metadata, f \in Faults :
           Return("update_metadata", [mod_id |-> mod_id, metadata |-> metadata], f,
                  update_metadata(Disk, mod_id, metadata, f, now), << >>)

OrganizeLooseMods(Faults) ==
    /\ now < MaxOps
    /\ \E f \in Faults :
           Return("organize_loose_mods", << >>, f, organize_loose_mods(Disk, f, now), << >>)

MergeDuplicateFolders(Faults) ==
    /\ now < MaxOps
    /\ \E f \in Faults :
           Return("merge_duplicate_folders", << >>, f,
                  merge_duplicate_folders(Disk, f, now), << >>)

\* a thumbnail is saved for a mod that has none
SaveThumbnail ==
    /\ now < MaxOps
    /\ \E mod_id \in ScanIds \ thumbs :
           Return("save_thumbnail", [mod_id |-> mod_id], NoFault,
                  Ok(save_thumbnail(Disk, mod_id), get_thumbnail_path(mod_id)), << >>)

\* the caller repeats the command it has just made, with the same arguments
Retry(Ops, Faults) ==
    /\ now < MaxOps
    /\ last.op \in Ops
    /\ last.first = << >>
    /\ \E f \in Faults :
           Return(last.op, last.args, f, Run(last.op, last.args, Disk, f, now), <<last.pre>>)

(***************************************************************************)
(* The inputs.                                                             *)
(***************************************************************************)
TitleOld == <<"O", "l", "d">>
TitleNew == <<"N", "e", "w">>
TagT == <<"t">>

UserMetadata(Titles, Characters) ==
    {[title |-> t, description |-> << >>, author |-> None, version |-> None,
      tags |-> <<TagT>>, category |-> "Skins", character |-> c, costume |-> None,
      is_favorite |-> TRUE, is_nsfw |-> FALSE,
      created_at |-> 0, updated_at |-> 0, install_date |-> 0,
      profile_ids |-> None, nexus_mod_id |-> None, nexus_file_id |-> None,
      nexus_version |-> None] : t \in Titles, c \in Characters}

FolderModA == << <<"M", "o", "d", "A">> >>
FolderWidowSpace ==
    << <<"S", "k", "i", "n", "s">>, <<"B", "l", "a", "c", "k", " ", "W", "i", "d", "o", "w">>,
       TitleOld >>
FolderWidowHyphenNew ==
    << <<"S", "k", "i", "n", "s">>, <<"B", "l", "a", "c", "k", "-", "W", "i", "d", "o", "w">>,
       TitleNew >>

\* every command, answered without faults
Next ==
    \/ InstallMod({<<D1, APak>>, <<D1, RTxt>>}, {NoFault})
    \/ InstallModToFolder({<<D1, APak>>, <<D1, BPak>>}, {FolderModA, FolderWidowHyphenNew},
                          {NoFault})
    \/ InstallModToFolderWithMetadata({<<D2, APak>>}, {FolderWidowSpace},
                                      UserMetadata({TitleOld}, {"BlackWidow"}), {NoFault})
    \/ EnableMod({NoFault})
    \/ DeleteMod({NoFault})
    \/ UpdateMetadata(UserMetadata({TitleOld, TitleNew}, {NoCharacter, "BlackWidow"}), {NoFault})
    \/ OrganizeLooseMods({NoFault})
    \/ MergeDuplicateFolders({NoFault})
    \/ SaveThumbnail

Spec == Init /\ [][Next]_vars

(***************************************************************************)
(* The vocabulary of the properties.                                       *)
(***************************************************************************)
\* the scan before and the scan after the last command
PreScan == Records(last.pre, last.at)
PostScan == Records(Disk, now)

\* the record m1 of disk s1 is of the file that record m0 was of on disk s0
SameFile(m0, s0, m1, s1) ==
    /\ file_name(m1.file_path) = file_name(m0.file_path)
    /\ s1.files[m1.file_path] = s0.files[m0.file_path]

\* the fields of a metadata record that the user edits
SameUserFields(a, b) ==
    /\ a.title = b.title
    /\ a.category = b.category
    /\ a.character = b.character
    /\ a.tags = b.tags
    /\ a.is_favorite = b.is_favorite

InstallOps == {"install_mod", "install_mod_to_folder", "install_mod_to_folder_with_metadata"}

Returned(op) == last.op = op /\ last.ok

\* the mod the last command was asked about, as the scan before it reports it
Subject == {m \in PreScan : m.id = last.args.mod_id}

\* C1: enabling or disabling never changes a mod's identifier: after
\* enable_mod(i, e) succeeds, the next scan reports the same mod under i.
C1_IdentifierSurvivesEnable ==
    Returned("enable_mod") =>
        \A m0 \in Subject :
            \E m1 \in PostScan : m1.id = m0.id /\ SameFile(m0, last.pre, m1, Disk)

\* C2: persisted metadata follows a mod through disable and re-enable: a mod
\* with a sidecar holding m is reported with m after each successful
\* enable_mod, not with synthesized defaults.
C2_MetadataFollowsEnable ==
    Returned("enable_mod") =>
        \A m0 \in Subject :
            load_metadata(last.pre, m0.id) # None =>
                \E m1 \in PostScan :
                    /\ SameFile(m0, last.pre, m1, Disk)
                    /\ SameUserFields(m1.metadata, load_metadata(last.pre, m0.id)[1])

\* C3: organize_loose_mods keeps the persisted metadata of each mod it moves:
\* a loose enabled mod with a sidecar holding m is reported after it with m,
\* under the identifier of its new path.
C3_OrganizeKeepsMetadata ==
    Returned("organize_loose_mods") =>
        \A m0 \in PreScan :
            (/\ m0.enabled
             /\ parent(m0.file_path) = mods_directory
             /\ load_metadata(last.pre, m0.id) # None) =>
                \E m1 \in PostScan :
                    /\ SameFile(m0, last.pre, m1, Disk)
                    /\ m1.id = generate_mod_id_from_path(m1.file_path, file_name(m1.file_path))
                    /\ SameUserFields(m1.metadata, load_metadata(last.pre, m0.id)[1])

\* C4: every install variant persists metadata before it returns: after a
\* successful install returning r, the sidecar of r.id exists and holds
\* r.metadata.
C4_InstallPersistsMetadata ==
    (last.op \in InstallOps /\ last.ok) =>
        load_metadata(Disk, last.ret[last.op].id) = Some(last.ret[last.op].metadata)

\* the mod folders of the disk s that merge_duplicate_folders finds in a source
\* character folder, each with the place it has in the target: [from, to]
MergeCandidates(s) ==
    {[from |-> child, to |-> join(TargetOf(SameNamed(CharacterFolders(s, parent(parent(child))),
                                                     parent(child))),
                                  file_name(child))] :
        child \in {d \in s.dirs : /\ Len(d) = Len(mods_directory) + 3
                                  /\ IsUnder(d, mods_directory)}}

MovedByMerge(s) == {c \in MergeCandidates(s) : parent(c.from) # parent(c.to)}

\* C5: merge_duplicate_folders never deletes a mod file: a child of a source
\* character folder whose name is taken in the target is skipped, and it and
\* every file in it are still on disk after the merge.
C5_MergeKeepsSkippedChild ==
    Returned("merge_duplicate_folders") =>
        \A c \in MovedByMerge(last.pre) :
            Exists(last.pre, c.to) =>
                /\ IsDir(Disk, c.from)
                /\ \A p \in DOMAIN last.pre.files :
                       IsUnder(p, c.from) => IsFile(Disk, p) /\ files[p] = last.pre.files[p]

\* the primary mod files that the merge of disk s relocates: [old, new] paths
RelocatedByMerge(s) ==
    UNION {{[old |-> p, new |-> Moved(p, c.from, c.to)] :
               p \in {q \in DOMAIN s.files : is_mod_file(q) /\ parent(q) = c.from}} :
           c \in {x \in MovedByMerge(s) : ~Exists(s, x.to)}}

IdOf(p) == generate_mod_id_from_path(p, file_name(p))

\* C7: every primary mod file relocated by merge_duplicate_folders that had a
\* metadata sidecar has, after the merge, the same metadata under the
\* identifier of its new path and its thumbnail under it, and neither sidecar
\* under the old identifier.
C7_MergeMigratesSidecars ==
    Returned("merge_duplicate_folders") =>
        \A r \in RelocatedByMerge(last.pre) :
            load_metadata(last.pre, IdOf(r.old)) = None
            \/ (/\ load_metadata(Disk, IdOf(r.new)) = load_metadata(last.pre, IdOf(r.old))
                /\ thumbnail_exists(last.pre, IdOf(r.old)) => thumbnail_exists(Disk, IdOf(r.new))
                /\ load_metadata(Disk, IdOf(r.old)) = None
                /\ ~thumbnail_exists(Disk, IdOf(r.old)))

\* the mods that update_metadata, called as the last command was, relocates:
\* in a folder that is not the one the new metadata asks for
Relocated ==
    {m \in Subject : /\ parent(m.file_path) # mods_directory
                     /\ parent(m.file_path) # ExpectedFolder(last.args.metadata)}

NewPath(m) == join(ExpectedFolder(last.args.metadata), file_name(m.file_path))

\* C8: after update_metadata relocates a mod, both sidecars have moved: each
\* one that was under the old identifier is under the new one, and neither is
\* under the old identifier.
C8_UpdateMovesSidecars ==
    Returned("update_metadata") =>
        \A m \in Relocated :
            /\ load_metadata(Disk, IdOf(NewPath(m))) # None
            /\ thumbnail_exists(last.pre, m.id) => thumbnail_exists(Disk, IdOf(NewPath(m)))
            /\ load_metadata(Disk, m.id) = None
            /\ ~thumbnail_exists(Disk, m.id)

(***************************************************************************)
(* The commands under faults: a mod folder of one or two mods, edited,     *)
(* disabled and enabled while the platform refuses some calls, and the     *)
(* caller repeating a command.                                             *)
(***************************************************************************)
InstallFaults == {NoFault, [NoFault EXCEPT !.copy = TRUE]}

EnableFaults == {NoFault, [NoFault EXCEPT !.file_op = 2]}

UpdateFaults ==
    {NoFault,
     [NoFault EXCEPT !.save = 1],
     [NoFault EXCEPT !.save = 2],
     [NoFault EXCEPT !.copy = TRUE],
     [NoFault EXCEPT !.file_op = 1],
     [NoFault EXCEPT !.dir_rename = TRUE],
     [NoFault EXCEPT !.dir_rename = TRUE, !.copy = TRUE],
     [NoFault EXCEPT !.dir_rename = TRUE, !.remove_dir = 1],
     [NoFault EXCEPT !.dir_rename = TRUE, !.remove_dir = 3]}

MutatingOps ==
    InstallOps \cup {"enable_mod", "delete_mod", "update_metadata", "organize_loose_mods",
                     "merge_duplicate_folders"}

\* the commands a fault is followed through
MaxFaultOps == 3

FolderSkinsNew == << <<"S", "k", "i", "n", "s">>, TitleNew >>

NextFaults ==
    \/ now < MaxFaultOps
       /\ InstallModToFolder({<<D1, APak>>, <<D1, BPak>>}, {FolderModA, FolderSkinsNew},
                             InstallFaults)
    \/ now < MaxFaultOps /\ SaveThumbnail
    \/ now < MaxFaultOps
       /\ UpdateMetadata(UserMetadata({TitleNew}, {NoCharacter}), UpdateFaults)
    \/ now < MaxFaultOps /\ EnableMod(EnableFaults)
    \/ now < MaxFaultOps /\ Retry(MutatingOps, {NoFault})

SpecFaults == Init /\ [][NextFaults]_vars

\* the file at q is there with the given content
HasContent(q, content) == IsFile(Disk, q) /\ files[q] = content

C9_EditSurvivesError ==
    (last.op = "update_metadata" /\ ~last.ok /\ last.f.save # 1) =>
        \/ load_metadata(Disk, last.args.mod_id) = Some(last.args.metadata)
        \/ \E m \in Subject :
               load_metadata(Disk, IdOf(NewPath(m))) = Some(last.args.metadata)

\* update_metadata has failed after the folder was copied: the delete with
\* retry gave up
C9_Witness ==
    /\ last.op = "update_metadata"
    /\ ~last.ok
    /\ last.f.remove_dir = 3
    /\ \E m \in Relocated : IsFile(Disk, NewPath(m)) /\ IsFile(Disk, m.file_path)

\* the metadata store without the dates
WithoutDates(store) ==
    [i \in DOMAIN store |-> [from_json(store[i]) EXCEPT !.created_at = 0, !.updated_at = 0,
                                                       !.install_date = 0]]

\* the same mod files and the same metadata store
SameStore(a, b) ==
    /\ DOMAIN a.files = DOMAIN b.files
    /\ \A p \in DOMAIN a.files : a.files[p] = b.files[p]
    /\ DOMAIN a.meta = DOMAIN b.meta
    /\ WithoutDates(a.meta) = WithoutDates(b.meta)
    /\ a.thumbs = b.thumbs

\* the disk is as the one successful invocation `once` leaves it
ConvergedTo(once) == once.ok => SameStore(Disk, once.s)

\* C10: retrying converges: a mutating command made a second time with the
\* same arguments directly after the first, whether the first succeeded or
\* failed partway, leaves the mod files and the metadata store as one
\* successful invocation does.
C10_RetryConverges ==
    last.first # << >> =>
        ConvergedTo(Run(last.op, last.args, last.first[1], NoFault, last.at - 1))


(***************************************************************************)
(* The scan of a disk as it is found.  Files come and go outside the       *)
(* program, and the two roots are what the settings make them: the disk    *)
(* and the roots are drawn, and the scan is made once.                     *)
(***************************************************************************)
\* the roots of ModService::new: the service of the commands, one whose
\* metadata directory lies below the active root, one whose metadata
\* directory has the marker in its name
ScanServices ==
    {[mods_directory |-> mods_directory, disabled_mods_directory |-> disabled_mods_directory],
     [mods_directory |-> mods_directory,
      disabled_mods_directory |-> mods_directory \o <<<<"m", "e", "t", "a", "d", "a", "t", "a">>, <<"d", "i", "s", "a", "b", "l", "e", "d", "-", "m", "o", "d", "s">>>>],
     [mods_directory |-> mods_directory,
      disabled_mods_directory |-> <<<<"~", "m", "o", "d", "s", ".", "d", "i", "s", "a", "b", "l", "e", "d">>, <<"d", "i", "s", "a", "b", "l", "e", "d", "-", "m", "o", "d", "s">>>>]}

\* the files a scanned disk may hold
ScanPaths ==
    {mods_directory \o <<APak>>,
     mods_directory \o <<<<"M", "o", "d", "A">>, APak>>,
     mods_directory \o <<<<"M", "o", "d", "A", ".", "d", "i", "s", "a", "b", "l", "e", "d">>, APak>>,
     disabled_mods_directory \o <<APak>>,
     mods_directory \o <<<<"m", "e", "t", "a", "d", "a", "t", "a">>, <<"d", "i", "s", "a", "b", "l", "e", "d", "-", "m", "o", "d", "s">>, APak>>,
     mods_directory \o <<<<"d", "i", "s", "a", "b", "l", "e", "d", "-", "m", "o", "d", "s">>, APak>>,
     <<<<"~", "m", "o", "d", "s", ".", "d", "i", "s", "a", "b", "l", "e", "d">>, <<"d", "i", "s", "a", "b", "l", "e", "d", "-", "m", "o", "d", "s">>, APak>>}

\* the directories of a disk that holds the given files and the two roots
DirsOf(paths) ==
    {mods_directory, disabled_mods_directory}
    \cup UNION {Prefixes(parent(p)) : p \in paths}

InitScan ==
    /\ \E paths \in SUBSET ScanPaths :
           /\ files = [p \in paths |-> <<D1, APak>>]
           /\ dirs = DirsOf(paths)
    /\ meta = << >>
    /\ thumbs = {}
    /\ now = 0
    /\ tasks = NoTasks
    /\ last = NoCall

\* get_all_mods, of a service on the disk as it is
GetAllMods(Services) ==
    /\ now < 1
    /\ \E self \in Services :
           Return("get_all_mods", self, NoFault, get_all_mods_of(self, Disk, now), << >>)

NextScan == GetAllMods(ScanServices)

SpecScan == InitScan /\ [][NextScan]_vars

\* the records the last command returned
Scanned == Range(last.ret[last.op])

\* the mod files of the disk below a directory
ModFilesUnder(dir) == {p \in DOMAIN files : IsUnder(p, dir) /\ is_mod_file(p)}

\* C11: get_all_mods never returns two records with the same identifier; when
\* files with the same marker-normalized path are under both the active and
\* the disabled root, one record is returned for them and it is a copy of the
\* active root, enabled.
C11_ScanIdentifiersUnique ==
    Returned("get_all_mods") =>
        /\ \A i, j \in DOMAIN last.ret[last.op] :
               last.ret[last.op][i].id = last.ret[last.op][j].id => i = j
        /\ \A p \in ModFilesUnder(last.args.mods_directory),
              q \in ModFilesUnder(last.args.disabled_mods_directory) :
               IdOf(p) = IdOf(q) =>
                   \E m \in Scanned :
                       /\ m.id = IdOf(p)
                       /\ m.enabled
                       /\ m.file_path \in ModFilesUnder(last.args.mods_directory)
                       /\ \A n \in Scanned : n.id = IdOf(p) => n = m

\* a scan has met two different files of one identifier, one below each root
C11_Witness ==
    /\ Returned("get_all_mods")
    /\ \E p \in ModFilesUnder(last.args.mods_directory),
          q \in ModFilesUnder(last.args.disabled_mods_directory) :
           p # q /\ IdOf(p) = IdOf(q)

(***************************************************************************)
(* The commands on a disk as it is found: the mod files, the folders and   *)
(* the sidecars are drawn, then the commands run.                           *)
(***************************************************************************)
\* the commands made on a found disk
MaxFoundOps == 2

\* a disk holding some of the files (each its own content), some of the
\* folders besides those of the files, one of the metadata stores and one of
\* the sets of thumbnails
InitFound(Files, Folders, Stores, Thumbs) ==
    /\ \E paths \in SUBSET Files, folders \in SUBSET Folders :
           /\ files = [p \in paths |-> p]
           /\ dirs = DirsOf(paths) \cup UNION {Prefixes(d) : d \in folders}
    /\ meta \in Stores
    /\ thumbs \in Thumbs
    /\ now = 0
    /\ tasks = NoTasks
    /\ last = NoCall

SkinsDir == mods_directory \o <<<<"S", "k", "i", "n", "s">>>>
ADisabledPak == <<"a", ".", "d", "i", "s", "a", "b", "l", "e", "d", ".", "p", "a", "k">>

\* loose files, two of them of one identifier, and a file that is not loose
LooseFiles ==
    {mods_directory \o <<APak>>,
     mods_directory \o <<ADisabledPak>>,
     mods_directory \o <<AUcas>>,
     mods_directory \o <<<<"M", "o", "d", "A">>, APak>>}

\* no sidecar, or one for the loose a.pak
LooseStores ==
    {<< >>} \cup {[i \in {IdOf(mods_directory \o <<APak>>)} |-> to_json(m)] :
                     m \in UserMetadata({TitleNew}, {"BlackWidow"})}

InitLoose == InitFound(LooseFiles, {}, LooseStores, {{}})

\* the commands on the mods found, also with the second rename or removal of
\* the command failing, or the first of update_metadata
NextLoose ==
    \/ now < MaxFoundOps /\ OrganizeLooseMods(EnableFaults)
    \/ now < MaxFoundOps /\ Retry({"organize_loose_mods"}, {NoFault})
    \/ now < MaxFoundOps /\ DeleteMod(EnableFaults)
    \/ now < MaxFoundOps /\ EnableMod(EnableFaults)
    \/ now < MaxFoundOps
       /\ UpdateMetadata(UserMetadata({TitleNew}, {NoCharacter}),
                         {NoFault, [NoFault EXCEPT !.file_op = 1]})

SpecLoose == InitLoose /\ [][NextLoose]_vars

\* the last command repeats one that, under one of the faults, had succeeded
\* and left the disk the repetition began with
RepeatsSuccess(op, Faults) ==
    /\ last.op = op
    /\ last.first # << >>
    /\ \E f \in Faults :
           /\ Run(op, last.args, last.first[1], f, last.at - 1).ok
           /\ Run(op, last.args, last.first[1], f, last.at - 1).s = last.pre

\* C12: organize_loose_mods is idempotent: directly after a successful
\* organize_loose_mods, a second one returns 0 and moves no file.
C12_OrganizeIdempotent ==
    RepeatsSuccess("organize_loose_mods", {NoFault}) =>
        /\ last.ok
        /\ last.ret[last.op] = 0
        /\ files = last.pre.files

(***************************************************************************)
(* The migration of the sidecars from the legacy identifiers, on a disk as *)
(* it is found.                                                            *)
(***************************************************************************)
\* three files of one name, so of one legacy identifier, and one of another
MigrateFiles ==
    {mods_directory \o <<APak>>,
     mods_directory \o <<<<"M", "o", "d", "A">>, APak>>,
     disabled_mods_directory \o <<APak>>,
     mods_directory \o <<BPak>>}

\* sidecars under the legacy identifier of a.pak and under the identifier of
\* the loose a.pak
MigrateStores ==
    UNION {[ids -> {to_json(m) : m \in UserMetadata({TitleOld, TitleNew}, {"BlackWidow"})}] :
              ids \in SUBSET {generate_mod_id(APak), IdOf(mods_directory \o <<APak>>)}}

MigrateThumbs == SUBSET {generate_mod_id(APak)}

\* the thumbnail copy fails, or the first save does
MigrateFaults == {NoFault, [NoFault EXCEPT !.copy = TRUE], [NoFault EXCEPT !.save = 1]}

InitMigrate == InitFound(MigrateFiles, {}, MigrateStores, MigrateThumbs)

MigrateMetadataToPathIds(Faults) ==
    /\ now < MaxFoundOps
    /\ \E f \in Faults :
           Return("migrate_metadata_to_path_ids", << >>, f,
                  migrate_metadata_to_path_ids(Disk, f, now), << >>)

NextMigrate ==
    \/ MigrateMetadataToPathIds(MigrateFaults)
    \/ now < MaxFoundOps /\ Retry({"migrate_metadata_to_path_ids"}, {NoFault})

SpecMigrate == InitMigrate /\ [][NextMigrate]_vars

\* C13: migrate_metadata_to_path_ids is idempotent: directly after a run
\* that returned success, a second run returns 0 and changes no metadata
\* and no thumbnail sidecar, also when several mods have one file name.
C13_MigrateIdempotent ==
    RepeatsSuccess("migrate_metadata_to_path_ids", MigrateFaults) =>
        /\ last.ok
        /\ last.ret[last.op] = 0
        /\ meta = last.pre.meta
        /\ thumbs = last.pre.thumbs

\* a second run after one that migrated the sidecar of a file name that
\* several mods have
C13_Witness ==
    /\ RepeatsSuccess("migrate_metadata_to_path_ids", MigrateFaults)
    /\ Cardinality({p \in DOMAIN last.first[1].files : file_name(p) = APak}) > 1
    /\ generate_mod_id(APak) \in DOMAIN last.first[1].meta
    /\ generate_mod_id(APak) \notin DOMAIN last.pre.meta
    /\ last.ok

(***************************************************************************)
(* The merge of the character folders of a disk as it is found.            *)
(***************************************************************************)

\* mod folders in four character folders of one normalized name and in a
\* folder of that name in another category
MergeFiles ==
    {SkinsDir \o <<<<"B", "l", "a", "c", "k", " ", "W", "i", "d", "o", "w">>, TitleOld, APak>>,
     SkinsDir \o <<<<"B", "l", "a", "c", "k", " ", "W", "i", "d", "o", "w">>, TitleNew, APak>>,
     SkinsDir \o <<<<"B", "l", "a", "c", "k", "-", "W", "i", "d", "o", "w">>, TitleOld, BPak>>,
     SkinsDir \o <<<<"B", "l", "a", "c", "k", "W", "i", "d", "o", "w">>, TitleOld, APak>>,
     SkinsDir \o <<<<"b", "l", "a", "c", "k", "-", "w", "i", "d", "o", "w">>, TitleNew, APak>>,
     mods_directory \o <<<<"U", "I">>, <<"B", "l", "a", "c", "k", " ", "W", "i", "d", "o", "w">>, TitleOld, APak>>}

MergeFolders == {SkinsDir \o <<<<"B", "l", "a", "c", "k", "-", "W", "i", "d", "o", "w">>>>}

\* a folder cannot be renamed, or a folder cannot be removed in any attempt
MergeFaults == {NoFault, [NoFault EXCEPT !.dir_rename = TRUE], [NoFault EXCEPT !.remove_dir = 3]}

InitMerge == InitFound(MergeFiles, MergeFolders, {<< >>}, {{}})

NextMerge == now < MaxFoundOps /\ MergeDuplicateFolders(MergeFaults)

SpecMerge == InitMerge /\ [][NextMerge]_vars

\* the character folders of the disk s: the folders in a category folder
CharFoldersOf(s) ==
    {d \in s.dirs : Len(d) = Len(mods_directory) + 2 /\ IsUnder(d, mods_directory)}

\* the character folders of the category of d whose names are equal to that
\* of d once hyphens and spaces are removed and case is folded
Group(s, d) ==
    {e \in CharFoldersOf(s) : /\ parent(e) = parent(d)
                              /\ normalized(file_name(e)) = normalized(file_name(d))}

\* t is, of the group of d, the first listed with a hyphen in its name, or
\* the first listed when no name has one
IsSurvivor(s, t, d) ==
    /\ t \in Group(s, d)
    /\ IF \E e \in Group(s, d) : HasHyphen(e)
       THEN HasHyphen(t) /\ \A e \in Group(s, d) \ {t} : HasHyphen(e) => PathLess(t, e)
       ELSE \A e \in Group(s, d) \ {t} : PathLess(t, e)

\* the mod folder c of a source folder meets its name in the survivor t or in
\* a source folder listed before its own
Conflicts(s, c, t) ==
    \/ Exists(s, join(t, file_name(c)))
    \/ \E e \in Group(s, parent(c)) \ {t, parent(c)} :
           PathLess(e, parent(c)) /\ IsDir(s, join(e, file_name(c)))

\* the mod folders of the source folders of s: the folders in a character
\* folder that is not the survivor of its group
SourceModFolders(s) ==
    {c \in s.dirs : /\ parent(c) \in CharFoldersOf(s)
                    /\ ~IsSurvivor(s, parent(c), parent(c))}

\* the mod folder c and the files below it are in the folder t
MergedInto(s, c, t) ==
    /\ IsDir(Disk, join(t, file_name(c)))
    /\ \A p \in DOMAIN s.files :
           IsUnder(p, c) => HasContent(Moved(p, parent(c), t), s.files[p])

\* C14: after merge_duplicate_folders succeeds, no category folder has two
\* child folders of one normalized name; of every group exactly the first
\* listed hyphenated folder (else the first listed) is left, it holds every
\* mod folder of the group that did not conflict, and the count returned is
\* the number of character folders removed.
C14_MergeLeavesOneFolder ==
    Returned("merge_duplicate_folders") =>
        /\ \A d \in CharFoldersOf(Disk) : Group(Disk, d) = {d}
        /\ \A d \in CharFoldersOf(last.pre) : \A t \in Group(last.pre, d) :
               IsDir(Disk, t) <=> IsSurvivor(last.pre, t, d)
        /\ \A c \in SourceModFolders(last.pre) : \A t \in Group(last.pre, parent(c)) :
               IsSurvivor(last.pre, t, parent(c)) /\ ~Conflicts(last.pre, c, t)
                   => MergedInto(last.pre, c, t)
        /\ last.ret[last.op] = Cardinality(CharFoldersOf(last.pre) \ dirs)

\* a merge of three folders of one name, one of whose mod folders conflicts
\* and one does not
C14_Witness ==
    /\ Returned("merge_duplicate_folders")
    /\ last.ret[last.op] >= 2
    /\ \E c, k \in SourceModFolders(last.pre) : \E t \in Group(last.pre, parent(c)) :
           /\ parent(k) \in Group(last.pre, parent(c))
           /\ IsSurvivor(last.pre, t, parent(c))
           /\ ~Conflicts(last.pre, c, t)
           /\ Conflicts(last.pre, k, t)

(***************************************************************************)
(* The cleanup of the empty folders of a disk as it is found.              *)
(***************************************************************************)
OldDir == SkinsDir \o <<TitleOld>>

\* folders at the first, second and third level below the active root, named
\* as the sanitized name of a character ("Black-Widow"), in either case, or not
CleanupFolders ==
    {SkinsDir,
     SkinsDir \o <<<<"B", "l", "a", "c", "k", "-", "W", "i", "d", "o", "w">>>>,
     SkinsDir \o <<<<"b", "l", "a", "c", "k", "-", "w", "i", "d", "o", "w">>, TitleNew>>,
     SkinsDir \o <<<<"B", "l", "a", "c", "k", " ", "W", "i", "d", "o", "w">>, TitleNew>>,
     OldDir,
     OldDir \o <<TitleNew>>,
     OldDir \o <<<<"B", "l", "a", "c", "k", "-", "W", "i", "d", "o", "w">>>>}

CleanupFiles ==
    {mods_directory \o <<APak>>,
     OldDir \o <<APak>>,
     OldDir \o <<TitleNew, BPak>>}

InitCleanup == InitFound(CleanupFiles, CleanupFolders, {<< >>}, {{}})

CleanupEmptyModFolders ==
    /\ now < MaxFoundOps
    /\ Return("cleanup_empty_mod_folders", << >>, NoFault,
              cleanup_empty_mod_folders(Disk), << >>)

NextCleanup == CleanupEmptyModFolders

SpecCleanup == InitCleanup /\ [][NextCleanup]_vars

\* the folders the cleanup is to keep: the active root, its direct children
\* and the folders named as the sanitized name of a character
Exempt(d) ==
    \/ d = mods_directory
    \/ parent(d) = mods_directory
    \/ to_lowercase(file_name(d)) \in CharacterFolderNames

\* C15: cleanup_empty_mod_folders never removes the active root, a direct child
\* of the root or a folder named as a sanitized character name, even when it
\* is empty.
C15_CleanupKeepsExempt ==
    Returned("cleanup_empty_mod_folders") =>
        \A d \in last.pre.dirs : Exempt(d) => IsDir(Disk, d)

\* the folders below the active root that are not exempt and hold no file in
\* their subtree
EmptyFolders(s) ==
    {d \in s.dirs : IsUnder(d, mods_directory) /\ ~Exempt(d) /\ is_folder_empty(s, d)}

DestRoot == IF last.args.enabled THEN mods_directory ELSE disabled_mods_directory

\* the files below root that are the file p of the disk before the command:
\* of its content and, the marker apart, of its name
CopiesUnder(p, root) ==
    {q \in DOMAIN files :
        /\ IsUnder(q, root)
        /\ files[q] = last.pre.files[p]
        /\ Replace(file_name(q), DisabledMarker, << >>)
               = Replace(file_name(p), DisabledMarker, << >>)}

\* C17: after enable_mod(id, false) succeeds every associated file of the mod
\* is under the disabled root, none is left where it was under the active
\* root, and the name of the primary file has the marker; after
\* enable_mod(id, true) succeeds every associated file is under the active
\* root and the name of the primary file has no marker.
C17_EnableMovesAndMarks ==
    Returned("enable_mod") =>
        \A m0 \in Subject :
            /\ \A p \in Range(m0.associated_files) :
                   /\ CopiesUnder(p, DestRoot) # {}
                   /\ ~last.args.enabled /\ IsUnder(p, mods_directory) => ~IsFile(Disk, p)
            /\ \A q \in CopiesUnder(m0.file_path, DestRoot) :
                   Contains(file_name(q), DisabledMarker) <=> ~last.args.enabled

\* C18: after delete_mod(id) succeeds none of the associated files of the mod
\* exists, there is no metadata and no thumbnail sidecar for id, the next
\* scan has no record with id, and every other file and every sidecar of
\* another identifier is as before.
C18_DeleteRemovesOnlyTheMod ==
    Returned("delete_mod") =>
        \A m0 \in Subject :
            /\ \A p \in Range(m0.associated_files) : ~IsFile(Disk, p)
            /\ load_metadata(Disk, m0.id) = None
            /\ ~thumbnail_exists(Disk, m0.id)
            /\ \A m1 \in PostScan : m1.id # m0.id
            /\ \A p \in DOMAIN last.pre.files \ Range(m0.associated_files) :
                   HasContent(p, last.pre.files[p])
            /\ \A i \in DOMAIN last.pre.meta \ {m0.id} :
                   load_metadata(Disk, i) = load_metadata(last.pre, i)
            /\ thumbs \ {m0.id} = last.pre.thumbs \ {m0.id}

\* the last command was update_metadata on a mod in a folder that is not the
\* one its new metadata names
Relocates(m0) ==
    /\ last.op = "update_metadata"
    /\ parent(m0.file_path) # mods_directory
    /\ parent(m0.file_path) # ExpectedFolder(last.args.metadata)

\* the primary mod files directly in the folder dir of the disk s
PrimaryFilesIn(s, dir) == {p \in DOMAIN s.files : parent(p) = dir /\ is_mod_file(p)}

WhereNow(p) == {parent(q) : q \in {x \in DOMAIN files : files[x] = last.pre.files[p]}}

LockstepOps == {"enable_mod", "organize_loose_mods", "update_metadata", "delete_mod"}

\* C20: after enable_mod, organize_loose_mods, update_metadata or delete_mod
\* returns, with success or with the error of a failed file operation, the
\* primary file and the companions of every mod are in one folder, or all
\* are deleted.
C20_CompanionsInLockstep ==
    last.op \in LockstepOps =>
        \A m0 \in PreScan :
            \A p \in Range(m0.associated_files) : WhereNow(p) = WhereNow(m0.file_path)

(***************************************************************************)
(* The records the commands return.                                        *)
(***************************************************************************)
\* the associated files of the record begin with its primary file
PrimaryFirst(m) ==
    /\ m.associated_files # << >>
    /\ m.associated_files[1] = m.file_path

RecordOps == InstallOps \cup {"update_metadata"}

\* C21: every record returned by the scan, by an install or by
\* update_metadata has a list of associated files that is not empty and
\* begins with the primary file of the record.
C21_PrimaryFileFirst ==
    /\ \A m \in Records(Disk, now) : PrimaryFirst(m)
    /\ last.op \in RecordOps /\ last.ok => PrimaryFirst(last.ret[last.op])

(***************************************************************************)
(* The scan of a disk some of whose directories cannot be listed and some  *)
(* of whose files cannot be stat-ed.                                       *)
(***************************************************************************)
DeniedFiles ==
    {mods_directory \o <<APak>>,
     mods_directory \o <<<<"M", "o", "d", "A">>, BPak>>,
     mods_directory \o <<<<"M", "o", "d", "A">>, TitleOld, APak>>,
     disabled_mods_directory \o <<BPak>>}

\* at most two of the files and of their directories are refused
DeniedSets ==
    {D \in SUBSET (DeniedFiles \cup DirsOf(DeniedFiles)) : Cardinality(D) <= 2}

InitDenied == InitFound(DeniedFiles, {}, {<< >>}, {{}})

\* get_all_mods while the platform refuses the paths of denied
GetAllModsDenied ==
    /\ now < 1
    /\ \E denied \in DeniedSets :
           Return("get_all_mods", [denied |-> denied], NoFault,
                  get_all_mods([Disk EXCEPT !.denied = denied], now), << >>)

NextDenied == GetAllModsDenied

SpecDenied == InitDenied /\ [][NextDenied]_vars

\* C22: get_all_mods returns an error whenever a directory at or below one of
\* the roots cannot be listed; when only files cannot be stat-ed it succeeds
\* and returns a record for every other mod file and for none of those.
C22_ScanFailsOnUnlistable ==
    last.op = "get_all_mods" =>
        IF \E d \in last.args.denied : IsDir(last.pre, d)
        THEN ~last.ok
        ELSE /\ last.ok
             /\ {m.file_path : m \in Scanned}
                    = {p \in DOMAIN files : is_mod_file(p)} \ last.args.denied

(***************************************************************************)
(* What organize_loose_mods moves.                                         *)
(***************************************************************************)
\* loose files, files in folders, one of them where organize_loose_mods puts
\* the loose a.pak, and a disabled file
OrganizeFiles ==
    {mods_directory \o <<APak>>,
     mods_directory \o <<AUcas>>,
     mods_directory \o <<BPak>>,
     mods_directory \o <<<<"M", "o", "d", "A">>, APak>>,
     SkinsDir \o <<<<"A">>, APak>>,
     disabled_mods_directory \o <<APak>>}

InitOrganize == InitFound(OrganizeFiles, {}, LooseStores, {{}})

NextOrganize == now < MaxFoundOps /\ OrganizeLooseMods(EnableFaults)

SpecOrganize == InitOrganize /\ [][NextOrganize]_vars

\* the records of the scan before the last command that are enabled and
\* whose file is directly in the active root
LooseBefore == {m \in PreScan : m.enabled /\ parent(m.file_path) = mods_directory}

\* <root>/<Category>/[<Character>/]<SanitizedModName>
TargetFolder(m) ==
    join_rel(mods_directory,
             <<category_to_string(m.category)>>
             \o (IF m.character = NoCharacter THEN << >>
                 ELSE <<character_to_string(m.character)>>)
             \o <<sanitize_folder_name(m.name)>>)

InitPure(Inputs) ==
    /\ files = EmptyDisk.files
    /\ dirs = EmptyDisk.dirs
    /\ meta = EmptyDisk.meta
    /\ thumbs = EmptyDisk.thumbs
    /\ now = 0
    /\ tasks = NoTasks
    /\ \E args \in Inputs : last = [NoCall EXCEPT !.args = args]

\* the function named op is applied to the input drawn: value is what it gives
Apply(op, value) ==
    /\ now = 0
    /\ last.args.fn = op
    /\ Return(op, last.args, NoFault, Ok(Disk, value), << >>)

\* the file name with the marker as its suffix, and before its extension
MarkerAppended(p) == join(parent(p), file_name(p) \o DisabledMarker)
MarkerInserted(p) ==
    join(parent(p),
         file_stem(file_name(p))[1] \o DisabledMarker \o <<".">> \o extension(file_name(p))[1])

\* paths of one file name in several folders, one of them with the marker in
\* its name, and a path with a marked file name
IdBasePaths ==
    {mods_directory \o <<APak>>,
     mods_directory \o <<<<"M", "o", "d", "A">>, APak>>,
     mods_directory \o <<<<"M", "o", "d", "A", ".", "d", "i", "s", "a", "b", "l", "e", "d">>, APak>>,
     disabled_mods_directory \o <<APak>>,
     mods_directory \o <<<<"M", "o", "d", "A">>, ADisabledPak>>}

IdPaths ==
    IdBasePaths \cup {MarkerAppended(p) : p \in IdBasePaths}
                \cup {MarkerInserted(p) : p \in IdBasePaths}

IdInputs == {[fn |-> "generate_mod_id_from_path", p |-> p, q |-> q] : p, q \in IdPaths}

\* the identifiers of the two paths drawn
GenerateModIdFromPath ==
    Apply("generate_mod_id_from_path",
          <<generate_mod_id_from_path(last.args.p, file_name(last.args.p)),
            generate_mod_id_from_path(last.args.q, file_name(last.args.q))>>)

InitIdentity == InitPure(IdInputs)

NextIdentity == GenerateModIdFromPath

SpecIdentity == InitIdentity /\ [][NextIdentity]_vars

Identified == last.op = "generate_mod_id_from_path"

\* C24: the identifier of a path is the identifier of the path with the marker
\* added to its file name, as a suffix or before the extension.
C24_IdentifierIgnoresMarker ==
    Identified /\ last.args.q \in {MarkerAppended(last.args.p), MarkerInserted(last.args.p)}
        => last.ret[last.op][1] = last.ret[last.op][2]

\* the identifiers of a path and of the path with the marker before the
\* extension of its file name have been computed
C24_Witness ==
    /\ Identified
    /\ last.args.q = MarkerInserted(last.args.p)
    /\ last.args.p = mods_directory \o <<<<"M", "o", "d", "A">>, APak>>

\* C25: two paths of one file name in different directories have different
\* identifiers.
C25_IdentifierTellsDirectories ==
    Identified /\ file_name(last.args.p) = file_name(last.args.q)
               /\ parent(last.args.p) # parent(last.args.q)
        => last.ret[last.op][1] # last.ret[last.op][2]

(***************************************************************************)
(* The metadata store: save_metadata, load_metadata and delete_metadata.   *)
(***************************************************************************)
\* the identifiers of three paths and the legacy identifier of a.pak
StoreIds ==
    {IdOf(mods_directory \o <<APak>>), IdOf(mods_directory \o <<<<"M", "o", "d", "A">>, APak>>),
     generate_mod_id(APak)}

\* a title with a quote and a backslash in it
TitleQuoted == <<"a", "\"", "\\", "b">>

\* records with every optional field absent, and records with every one
\* present: dates of one and of several digits, a character with a renamed
\* variant, an empty and a two-element list of profiles
StoreMetadata ==
    UserMetadata({TitleOld}, {NoCharacter, "SpiderMan"})
        \cup {[m EXCEPT !.description = TitleQuoted, !.author = Some(TitleOld),
                        !.version = Some(<<"1", ".", "0">>), !.tags = << >>, !.category = c,
                        !.costume = Some(<<"2", "0", "9", "9">>), !.is_favorite = FALSE, !.is_nsfw = TRUE,
                        !.created_at = 7, !.updated_at = 12, !.install_date = 120,
                        !.profile_ids = ids, !.nexus_mod_id = Some(42),
                        !.nexus_file_id = Some(0), !.nexus_version = Some(<< >>)] :
                 m \in UserMetadata({TitleNew}, {"BlackWidow"}),
                 c \in {"UI", "Gameplay"},
                 ids \in {Some(<< >>), Some(<<TagT, TitleQuoted>>)}}

\* the store as found: empty, or one document under one identifier
FoundStores ==
    {<< >>} \cup {[i \in {id} |-> to_json(m)] : id \in StoreIds, m \in StoreMetadata}

InitStore == InitFound({}, {}, FoundStores, {{}})

SaveMetadata ==
    /\ now < MaxFoundOps
    /\ \E mod_id \in StoreIds, metadata \in StoreMetadata :
           Return("save_metadata", [mod_id |-> mod_id, metadata |-> metadata], NoFault,
                  Ok(save_metadata(Disk, mod_id, metadata), Unit), << >>)

LoadMetadata ==
    /\ now < MaxFoundOps
    /\ \E mod_id \in StoreIds :
           Return("load_metadata", [mod_id |-> mod_id], NoFault,
                  Ok(Disk, load_metadata(Disk, mod_id)), << >>)

DeleteMetadata ==
    /\ now < MaxFoundOps
    /\ \E mod_id \in StoreIds :
           Return("delete_metadata", [mod_id |-> mod_id], NoFault,
                  Ok(delete_metadata(Disk, mod_id), Unit), << >>)

NextStore == SaveMetadata \/ LoadMetadata \/ DeleteMetadata

SpecStore == InitStore /\ [][NextStore]_vars

\* C26: after save_metadata(id, m), load_metadata(id) gives Some(m), every
\* field equal; and save_metadata and delete_metadata under one identifier
\* leave what load_metadata gives for every other identifier as it was.
C26_StoreRoundTrip ==
    /\ last.op = "save_metadata" =>
           load_metadata(Disk, last.args.mod_id) = Some(last.args.metadata)
    /\ last.op \in {"save_metadata", "delete_metadata"} =>
           \A i \in StoreIds \ {last.args.mod_id} :
               load_metadata(Disk, i) = load_metadata(last.pre, i)
    /\ last.op = "load_metadata" /\ last.pre = Disk =>
           last.ret[last.op] = load_metadata(Disk, last.args.mod_id)

\* a record with every optional field present has been saved over another
\* document, while a second identifier holds a document of its own
C26_Witness ==
    /\ last.op = "save_metadata"
    /\ last.args.metadata.profile_ids = Some(<<TagT, TitleQuoted>>)
    /\ last.args.metadata.install_date = 120
    /\ load_metadata(last.pre, last.args.mod_id) \notin {None, Some(last.args.metadata)}
    /\ \E i \in StoreIds \ {last.args.mod_id} : load_metadata(Disk, i) # None

(***************************************************************************)
(* Naming and classification, applied to names and paths drawn.            *)
(***************************************************************************)
RECURSIVE StringsUpTo(_, _)
StringsUpTo(Chars, n) ==
    IF n = 0 THEN {<< >>}
    ELSE StringsUpTo(Chars, n - 1)
             \cup {<<c>> \o x : c \in Chars, x \in StringsUpTo(Chars, n - 1)}

MaxTitleLen == 3
TitleChars == {"a", " ", "-", ".", "?"}

\* short titles over a letter, the space, the trimmed characters and a
\* removed one
SanitizeTitles == StringsUpTo(TitleChars, MaxTitleLen)

SanitizeInputs == {[fn |-> "sanitize_folder_name", name |-> x] : x \in SanitizeTitles}

SanitizeFolderName ==
    Apply("sanitize_folder_name", sanitize_folder_name(last.args.name))

MaxStemLen == 3
StemChars == {"a", "A", "P", "1", "_", "-", "."}

\* file names with the extension pak: the stem is not empty and does not
\* begin with a period
ModFileNames ==
    {x \o <<".", "p", "a", "k">> : x \in {y \in StringsUpTo(StemChars, MaxStemLen) : y # << >> /\ y[1] # "."}}

ExtractInputs == {[fn |-> "extract_mod_name", file_name |-> x] : x \in ModFileNames}

ExtractModName ==
    Apply("extract_mod_name", extract_mod_name(last.args.file_name))

RECURSIVE FoldersUpTo(_, _)
FoldersUpTo(Names, n) ==
    IF n = 0 THEN {<< >>}
    ELSE FoldersUpTo(Names, n - 1)
             \cup {<<d>> \o x : d \in Names, x \in FoldersUpTo(Names, n - 1)}

MaxFolderDepth == 2

\* folders named after characters, in several cases, and others
RosterFolders == {<<"G", "a", "m", "b", "i", "t">>, <<"T", "h", "o", "r">>, <<"H", "U", "L", "K">>, <<"S", "k", "i", "n", "s">>, <<"x">>}
CharacterFileNames == {<<"a", ".", "p", "a", "k">>, <<"t", "h", "o", "r", ".", "p", "a", "k">>, <<"H", "u", "l", "k", "_", "T", "h", "o", "r", ".", "p", "a", "k">>, <<"r", "e", "m", "y", ".", "p", "a", "k">>, <<"v", "e", "n", "o", "m", "_", "s", "k", "i", "n", ".", "p", "a", "k">>}

CharacterInputs ==
    {[fn |-> "detect_character_from_path", file_path |-> mods_directory \o d \o <<x>>,
      file_name |-> x] : d \in FoldersUpTo(RosterFolders, MaxFolderDepth),
                         x \in CharacterFileNames}

DetectCharacterFromPath ==
    Apply("detect_character_from_path",
          detect_character_from_path(last.args.file_path, last.args.file_name))

\* folders named after categories, in several cases, and others
CategoryFolderNames == {<<"S", "k", "i", "n", "s">>, <<"u", "i">>, <<"A", "U", "D", "I", "O">>, <<"G", "a", "m", "e", "p", "l", "a", "y">>, <<"x">>, <<"S", "k", "i", "n", "s", "x">>}
CategoryFileNames == {<<"a", ".", "p", "a", "k">>, <<"s", "o", "u", "n", "d", ".", "p", "a", "k">>, <<"h", "u", "d", "_", "s", "k", "i", "n", ".", "p", "a", "k">>, <<"s", "t", "a", "t", ".", "p", "a", "k">>}

CategoryInputs ==
    {[fn |-> "detect_category_from_path", file_path |-> mods_directory \o d \o <<x>>,
      file_name |-> x] : d \in FoldersUpTo(CategoryFolderNames, MaxFolderDepth),
                         x \in CategoryFileNames}

DetectCategoryFromPath ==
    Apply("detect_category_from_path",
          detect_category_from_path(last.args.file_path, last.args.file_name))

NamesInputs == SanitizeInputs \cup ExtractInputs \cup CharacterInputs \cup CategoryInputs

InitNames == InitPure(NamesInputs)

NextNames ==
    \/ SanitizeFolderName
    \/ ExtractModName
    \/ DetectCharacterFromPath
    \/ DetectCategoryFromPath

SpecNames == InitNames /\ [][NextNames]_vars

TrimmedChars == {"-", ".", " "}

\* C27: the folder name derived from a title is not empty, has none of the
\* characters < > : " / \ | ? *, neither begins nor ends with a hyphen, a
\* period or a space, and has at most 100 characters.
C27_FolderNameValid ==
    last.op = "sanitize_folder_name" =>
        /\ last.ret[last.op] # << >>
        /\ \A i \in DOMAIN last.ret[last.op] : IsValidFolderChar(last.ret[last.op][i])
        /\ Head(last.ret[last.op]) \notin TrimmedChars
        /\ last.ret[last.op][Len(last.ret[last.op])] \notin TrimmedChars
        /\ Len(last.ret[last.op]) <= SanitizeMaxLen

\* C28: the title inferred from a file name is not empty, has no underscore,
\* hyphen or period, and no "_P" left in it.
C28_TitleNotEmpty ==
    last.op = "extract_mod_name" =>
        /\ last.ret[last.op] # << >>
        /\ \A i \in DOMAIN last.ret[last.op] : last.ret[last.op][i] \notin {"_", "-", "."}
        /\ ~Contains(last.ret[last.op], <<"_", "P">>)

\* the folders of a path, lowercased
FolderSegments(p) == {to_lowercase(p[j]) : j \in 1..(Len(p) - 1)}

\* the positions in Character::all_characters of the characters with a
\* keyword that is a folder of the path, and with one in the file name
SegmentHits(p) ==
    {i \in DOMAIN all_characters :
        \E k \in DOMAIN character_keywords(all_characters[i]) :
            character_keywords(all_characters[i])[k] \in FolderSegments(p)}

NameHits(x) ==
    {i \in DOMAIN all_characters :
        \E k \in DOMAIN character_keywords(all_characters[i]) :
            Contains(to_lowercase(x), character_keywords(all_characters[i])[k])}

FirstInRoster(hits) == all_characters[CHOOSE i \in hits : \A j \in hits : i <= j]

\* C29: the character inferred is the first of Character::all_characters with
\* a keyword that is a folder of the path, else the first with a keyword in
\* the file name, and none only when no character has such a keyword.
C29_FirstCharacterOfRoster ==
    last.op = "detect_character_from_path" =>
        last.ret[last.op] =
            IF SegmentHits(last.args.file_path) # {}
            THEN FirstInRoster(SegmentHits(last.args.file_path))
            ELSE IF NameHits(last.args.file_name) # {}
            THEN FirstInRoster(NameHits(last.args.file_name))
            ELSE NoCharacter

\* the categories whose name is a folder of the path
SegmentCategories(p) ==
    {c \in ModCategory : to_lowercase(category_to_string(c)) \in FolderSegments(p)}

NameCategories(x) ==
    {c \in ModCategory :
        \E k \in DOMAIN category_keywords(c) : Contains(to_lowercase(x), category_keywords(c)[k])}

\* C30: a path with a folder named after a category gives that category,
\* whatever the file name; a path with no such folder and a file name with no
\* keyword gives Skins.
C30_CategoryFolderWins ==
    last.op = "detect_category_from_path" =>
        /\ SegmentCategories(last.args.file_path) # {} =>
               last.ret[last.op] \in SegmentCategories(last.args.file_path)
        /\ (/\ SegmentCategories(last.args.file_path) = {}
            /\ NameCategories(last.args.file_name) = {}) =>
               last.ret[last.op] = "Skins"

\* a file with the keyword of Audio in its name, in a folder named Ui
C30_Witness ==
    /\ last.op = "detect_category_from_path"
    /\ last.args.file_path = mods_directory \o <<<<"x">>, <<"u", "i">>, <<"s", "o", "u", "n", "d", ".", "p", "a", "k">>>>
    /\ last.ret[last.op] = "UI"

(***************************************************************************)
(* The thumbnail a scan resolves after one has been saved.                 *)
(***************************************************************************)
BPPak == <<"b", "_", "P", ".", "p", "a", "k">>

ThumbFiles == {mods_directory \o <<APak>>, mods_directory \o <<<<"M", "o", "d", "A">>, BPPak>>}

ThumbIds == {IdOf(p) : p \in ThumbFiles} \cup {generate_mod_id(APak)}

\* thumbnails of the old application: named by an identifier, by a file, and
\* by a file without "_P"
LegacyNames ==
    {IdOf(mods_directory \o <<APak>>) \o <<".", "p", "n", "g">>,
     IdOf(mods_directory \o <<<<"M", "o", "d", "A">>, BPPak>>) \o <<".", "w", "e", "b", "p">>,
     <<"a", ".", "j", "p", "g">>, <<"b", ".", "j", "p", "e", "g">>, <<"b", "_", "P", ".", "p", "n", "g">>}

\* at most two of them are there
LegacySets == {L \in SUBSET LegacyNames : Cardinality(L) <= 2}

InitThumbs == InitFound(ThumbFiles, {}, {<< >>}, SUBSET {IdOf(mods_directory \o <<APak>>)})

\* save_thumbnail_from_file and download_and_save_thumbnail, once the image
\* is loaded, beside a thumbnails directory holding the names of legacy
SaveThumbnailLegacy ==
    /\ now < MaxFoundOps
    /\ \E mod_id \in ThumbIds, legacy \in LegacySets :
           Return("save_thumbnail", [mod_id |-> mod_id, legacy |-> legacy], NoFault,
                  Ok(save_thumbnail(Disk, mod_id), get_thumbnail_path(mod_id)), << >>)

GetAllModsLegacy ==
    /\ now < MaxFoundOps
    /\ \E legacy \in LegacySets :
           Return("get_all_mods", [legacy |-> legacy], NoFault,
                  get_all_mods([Disk EXCEPT !.legacy = legacy], now), << >>)

NextThumbs == SaveThumbnailLegacy \/ GetAllModsLegacy

SpecThumbs == InitThumbs /\ [][NextThumbs]_vars

\* the records of the next scan, the thumbnails directory being as it was
ScanWithLegacy == Records([Disk EXCEPT !.legacy = last.args.legacy], now)

\* C31: the thumbnail saved for an identifier is at the path the scanner looks
\* at first, <metadata-dir>/<id>_thumbnail.png, and the next scan reports it
\* for the mod with that identifier, whatever the thumbnails directory holds.
C31_SavedThumbnailResolved ==
    last.op = "save_thumbnail" =>
        /\ last.ret[last.op] = new_thumbnail_path(last.args.mod_id)
        /\ \A m \in ScanWithLegacy :
               m.id = last.args.mod_id => m.thumbnail_path = Some(last.ret[last.op])

\* a thumbnail has been saved for a mod on disk that had none, while the
\* thumbnails directory holds one named by its identifier and one by its file
C31_Witness ==
    /\ last.op = "save_thumbnail"
    /\ last.args.mod_id = IdOf(mods_directory \o <<APak>>)
    /\ last.args.mod_id \notin last.pre.thumbs
    /\ {last.args.mod_id \o <<".", "p", "n", "g">>, <<"a", ".", "j", "p", "g">>} \subseteq last.args.legacy
    /\ \E m \in ScanWithLegacy : m.id = last.args.mod_id

(***************************************************************************)
(* update_metadata on a disabled mod.                                      *)
(***************************************************************************)
\* the disabled mod update_metadata was asked about
DisabledSubject == {m \in Subject : ~m.enabled}

\* the file that was at p is under the disabled root
StaysDisabled(p) ==
    \E q \in DOMAIN files : /\ IsUnder(q, disabled_mods_directory)
                            /\ files[q] = last.pre.files[p]

\* C32: update_metadata on a mod found under the disabled root leaves every
\* file of the mod under the disabled root, leaves every file of every other
\* disabled mod where it is, and returns a record that is not enabled.
C32_UpdateKeepsDisabled ==
    Returned("update_metadata") =>
        \A m0 \in DisabledSubject :
            /\ \A p \in Range(m0.associated_files) : StaysDisabled(p)
            /\ \A m \in PreScan :
                   ~m.enabled /\ m.id # m0.id =>
                       \A p \in Range(m.associated_files) : HasContent(p, last.pre.files[p])
            /\ ~last.ret[last.op].enabled

(***************************************************************************)
(* What enable_mod keeps.                                                  *)
(***************************************************************************)
\* C33: after enable_mod succeeds every primary mod file that was on disk is
\* still on disk, and the scan reports as many mods as before.
C33_EnableKeepsEveryMod ==
    Returned("enable_mod") =>
        /\ \A m0 \in PreScan :
               \E q \in DOMAIN files : files[q] = last.pre.files[m0.file_path]
        /\ Cardinality(PostScan) = Cardinality(PreScan)

(***************************************************************************)
(* update_metadata and enable_mod running concurrently on one mod.  The    *)
(* commands are async and take no lock (lib.rs 591-610): the calls each    *)
(* makes on the file system interleave.  A task is at a position pc of its *)
(* code, with the locals it has there.                                     *)
(***************************************************************************)
TaskMod == mods_directory \o <<<<"M", "o", "d", "A">>, APak>>

\* the mod in the folder ModA with its companion, beside another mod of the
\* folder or not, the folder asked for being there already or not
TaskFiles ==
    {mods_directory \o <<<<"M", "o", "d", "A">>, AUcas>>,
     mods_directory \o <<<<"M", "o", "d", "A">>, BPak>>,
     mods_directory \o <<<<"S", "k", "i", "n", "s">>, TitleNew, BPak>>}

InitTasks ==
    /\ \E paths \in SUBSET TaskFiles :
           /\ files = [p \in paths \cup {TaskMod} |-> p]
           /\ dirs = DirsOf(paths \cup {TaskMod})
    /\ meta = << >>
    /\ thumbs = {}
    /\ now = 0
    /\ last = NoCall
    /\ \E metadata \in UserMetadata({TitleNew}, {NoCharacter}), enabled \in BOOLEAN :
           tasks = [mod_id |-> IdOf(TaskMod),
                    mod_files |-> {p \in DOMAIN files : file_stem(file_name(p)) = Some(<<"a">>)},
                    update |-> [pc |-> "save", metadata |-> metadata, old_mod |-> None],
                    enable |-> [pc |-> "find", enabled |-> enabled, paths |-> << >>, i |-> 1]]

\* a task has made its step: the disk it leaves and where the task is
Step(s, t) ==
    /\ files' = s.files
    /\ dirs' = s.dirs
    /\ meta' = s.meta
    /\ thumbs' = s.thumbs
    /\ tasks' = t
    /\ UNCHANGED <<now, last>>

Returning(r) == IF r.ok THEN "returned" ELSE "failed"

\* update_metadata: self.save_metadata(mod_id, &metadata)?
UpdateSave ==
    /\ tasks # NoTasks
    /\ tasks.update.pc = "save"
    /\ Step(save_metadata(Disk, tasks.mod_id, tasks.update.metadata),
            [tasks EXCEPT !.update.pc = "scan"])

\* update_metadata: the scan and the search for the mod in it; the task
\* returns the minimal record when the mod is not there
UpdateScan ==
    /\ tasks # NoTasks
    /\ tasks.update.pc = "scan"
    /\ Step(get_all_mods(Disk, now).s,
            [tasks EXCEPT !.update.old_mod = FirstWithId(Scan(Disk, now), tasks.mod_id, 1),
                          !.update.pc = IF FirstWithId(Scan(Disk, now), tasks.mod_id, 1) = None
                                        THEN "returned" ELSE "relocate"])

\* update_metadata from the folder check on, for the record the scan gave
UpdateRelocate ==
    /\ tasks # NoTasks
    /\ tasks.update.pc = "relocate"
    /\ Step(UpdateFound(Disk, tasks.mod_id, tasks.update.metadata, tasks.update.old_mod,
                        NoFault, now).s,
            [tasks EXCEPT !.update.pc =
                Returning(UpdateFound(Disk, tasks.mod_id, tasks.update.metadata,
                                      tasks.update.old_mod, NoFault, now))])

EnableDest == IF tasks.enable.enabled THEN mods_directory ELSE disabled_mods_directory

\* enable_mod: find_mod_by_id and ensure_directory_exists
EnableFind ==
    /\ tasks # NoTasks
    /\ tasks.enable.pc = "find"
    /\ IF FoundMod(Disk, tasks.mod_id, now).ok
       THEN Step(ensure_directory_exists(FoundMod(Disk, tasks.mod_id, now).s, EnableDest).s,
                 [tasks EXCEPT !.enable.pc = "move",
                               !.enable.paths =
                                   FoundMod(Disk, tasks.mod_id, now).ret[1].associated_files])
       ELSE Step(FoundMod(Disk, tasks.mod_id, now).s, [tasks EXCEPT !.enable.pc = "failed"])

\* enable_mod: one turn of the loop over the associated files
EnableMove ==
    /\ tasks # NoTasks
    /\ tasks.enable.pc = "move"
    /\ IF tasks.enable.i > Len(tasks.enable.paths)
       THEN Step(Disk, [tasks EXCEPT !.enable.pc = "returned"])
       ELSE Step(fs_rename(Disk, tasks.enable.paths[tasks.enable.i],
                           join(EnableDest, file_name(tasks.enable.paths[tasks.enable.i]))).s,
                 [tasks EXCEPT !.enable.pc =
                      IF fs_rename(Disk, tasks.enable.paths[tasks.enable.i],
                                   join(EnableDest,
                                        file_name(tasks.enable.paths[tasks.enable.i]))).ok
                      THEN "move" ELSE "failed",
                               !.enable.i = @ + 1])

NextTasks == UpdateSave \/ UpdateScan \/ UpdateRelocate \/ EnableFind \/ EnableMove

SpecTasks == InitTasks /\ [][NextTasks]_vars

BothReturned ==
    /\ tasks # NoTasks
    /\ tasks.update.pc \in {"returned", "failed"}
    /\ tasks.enable.pc \in {"returned", "failed"}

\* where the file that was at p when the tasks began is
TaskPlaces(p) == {q \in DOMAIN files : files[q] = p}

\* C34: once update_metadata and enable_mod, started together on one mod,
\* have both returned, every file of the mod is in exactly one place, the
\* primary file and its companions are in one directory, and the scan reports
\* exactly one record for the mod.
C34_ConcurrentKeepsModWhole ==
    BothReturned =>
        /\ \A p \in tasks.mod_files : Cardinality(TaskPlaces(p)) = 1
        /\ Cardinality({parent(q) : q \in UNION {TaskPlaces(p) : p \in tasks.mod_files}}) = 1
        /\ Cardinality({m \in Records(Disk, now) : files[m.file_path] = TaskMod}) = 1

(***************************************************************************)
(* Sidecars without a mod.                                                 *)
(***************************************************************************)
\* the metadata and thumbnail sidecars of disk s keyed by no mod file on it
Orphans(s) ==
    (DOMAIN s.meta \cup s.thumbs) \ {IdOf(p) : p \in {q \in DOMAIN s.files : is_mod_file(q)}}

SidecarOps ==
    InstallOps \cup {"enable_mod", "organize_loose_mods", "update_metadata",
                     "merge_duplicate_folders", "delete_mod"}

\* C35: a successful install, enable_mod, organize_loose_mods,
\* update_metadata, merge_duplicate_folders or delete_mod on a disk where
\* every sidecar is keyed by the identifier of a mod file on disk leaves such
\* a disk.
C35_NoOrphanSidecars ==
    (last.op \in SidecarOps /\ last.ok /\ Orphans(last.pre) = {}) => Orphans(Disk) = {}

(***************************************************************************)
(* The folder organize_loose_mods gives and the folder update_metadata     *)
(* expects: a loose mod whose sidecar names a category, a character and a  *)
(* title is organized, then updated with the metadata it was organized by. *)
(***************************************************************************)
TitleTwoWords == <<"M", "y", " ", "M", "o", "d">>

\* every category, no character or one of the roster, two titles
FolderMetadata ==
    {[m EXCEPT !.category = c] :
        m \in UserMetadata({TitleNew, TitleTwoWords}, {NoCharacter} \cup Range(all_characters)),
        c \in ModCategory}

FolderStores ==
    {[i \in {IdOf(mods_directory \o <<APak>>)} |-> to_json(m)] : m \in FolderMetadata}

InitFolders ==
    InitFound({mods_directory \o <<APak>>}, {}, FolderStores, {{}})
    /\ files # << >>

\* update_metadata, called for a mod organize_loose_mods has just moved with
\* the metadata of its record before the move
UpdateUnchanged ==
    /\ Returned("organize_loose_mods")
    /\ \E moved \in LooseBefore :
           Return("update_metadata",
                  [mod_id |-> IdOf(join(OrganizedFolder(moved), file_name(moved.file_path))),
                   metadata |-> moved.metadata],
                  NoFault,
                  update_metadata(Disk, IdOf(join(OrganizedFolder(moved),
                                                  file_name(moved.file_path))),
                                  moved.metadata, NoFault, now),
                  << >>)

NextFolders ==
    \/ last = NoCall /\ OrganizeLooseMods({NoFault})
    \/ UpdateUnchanged

SpecFolders == InitFolders /\ [][NextFolders]_vars

\* the record of the mod update_metadata was called for is in the folder
\* organize_loose_mods derives from the category, the character and the title
\* of the metadata of the call
InOrganizedFolder ==
    \E m \in PreScan :
        /\ m.id = last.args.mod_id
        /\ parent(m.file_path)
               = OrganizedFolder([category |-> last.args.metadata.category,
                                  character |-> last.args.metadata.character,
                                  name |-> last.args.metadata.title])

\* C36: update_metadata, called with the category, the character and the
\* title organize_loose_mods placed the mod by, finds the folder correct: no
\* file and no folder moves.
C36_SameFolderDerived ==
    (Returned("update_metadata") /\ InOrganizedFolder)
        => (files = last.pre.files /\ dirs = last.pre.dirs)

(***************************************************************************)
(* The folder rename of update_metadata and its fallback.                  *)
(***************************************************************************)
\* the last command was update_metadata for a mod alone in its folder, which
\* is not the folder the metadata asks for, and the platform refused the
\* rename of the folder
RenameRefused ==
    /\ last.op = "update_metadata"
    /\ last.f.dir_rename
    /\ last.f.save = 0
    /\ \E m \in Relocated : pak_count(last.pre, parent(m.file_path)) <= 1

\* the same call from the same disk at the same time, the platform refusing
\* nothing
DirectRename ==
    update_metadata(last.pre, last.args.mod_id, last.args.metadata, NoFault, last.at)

FallbackDone == RenameRefused /\ ~last.f.copy /\ last.f.remove_dir < 3

FallbackFailed == RenameRefused /\ (last.f.copy \/ last.f.remove_dir >= 3)

\* C37: when the rename of the folder is refused and the copy and the delete
\* succeed, update_metadata leaves the files, the folders and the sidecars a
\* rename that succeeds leaves; when the copy or the delete fails, it returns
\* an error and every file of the mod is in the old or in the new folder.
C37_FallbackAsRename ==
    /\ (FallbackDone /\ DirectRename.ok) =>
           /\ last.ok
           /\ files = DirectRename.s.files
           /\ dirs = DirectRename.s.dirs
           /\ meta = DirectRename.s.meta
           /\ thumbs = DirectRename.s.thumbs
    /\ FallbackFailed =>
           /\ ~last.ok
           /\ \A m \in Relocated : \A p \in Range(m.associated_files) :
                  \/ HasContent(p, last.pre.files[p])
                  \/ HasContent(join(ExpectedFolder(last.args.metadata), file_name(p)),
                                last.pre.files[p])

\* the fallback moved a mod with a companion file and both sidecars, the
\* first removal of the old folder failing
C37_Witness ==
    /\ FallbackDone
    /\ DirectRename.ok
    /\ last.f.remove_dir = 1
    /\ \E m \in Relocated :
           /\ Len(m.associated_files) > 1
           /\ m.id \in DOMAIN last.pre.meta
           /\ m.id \in last.pre.thumbs
           /\ ~Exists(Disk, parent(m.file_path))

(***************************************************************************)
(* delete_directory_with_retry, call by call: the attempts it makes and    *)
(* the pauses between them.  The platform refuses an attempt (a file of    *)
(* the folder is locked) or not; an attempt on a folder that is not there  *)
(* fails.  The thread of the command runs on: every call returns.          *)
(***************************************************************************)
RetryFolder == mods_directory \o <<<<"M", "o", "d", "A">>>>

RetryFiles ==
    {RetryFolder \o <<APak>>,
     RetryFolder \o <<AUcas>>,
     RetryFolder \o <<<<"s", "u", "b">>, BPak>>,
     mods_directory \o <<BPak>>,
     SkinsDir \o <<TitleNew, APak>>}

\* the only value the callers pass (mod_service.rs 421 and 814)
MaxRetries == 3

\* a faulty variant: a pause after every failed attempt, the last included
PauseAlways(attempt, max_retries) == TRUE

\* `if attempt < max_retries - 1`
PauseFollows(attempt, max_retries) == attempt < max_retries - 1

\* `100 * (2_u64.pow(attempt))`; attempt is below max_retries, far from the
\* 64 bits of the product
delay_ms(attempt) == 100 * 2^attempt

InitRetry ==
    /\ \E paths \in SUBSET RetryFiles :
           /\ files = [p \in paths |-> p]
           /\ dirs = DirsOf(paths)
    /\ meta = << >>
    /\ thumbs = {}
    /\ now = 0
    /\ last = NoCall
    /\ tasks = [delete |-> [pc |-> "remove", path |-> RetryFolder, max_retries |-> MaxRetries,
                            attempt |-> 0, last_error |-> None, outcomes |-> << >>,
                            slept |-> << >>]]

\* the state of the loop after a failed attempt
AfterError(t) ==
    IF PauseFollows(t.attempt, t.max_retries)
    THEN [t EXCEPT !.last_error = Some("e"), !.pc = "sleep"]
    ELSE IF t.attempt + 1 < t.max_retries
    THEN [t EXCEPT !.last_error = Some("e"), !.attempt = @ + 1]
    ELSE [t EXCEPT !.last_error = Some("e"), !.attempt = @ + 1, !.pc = "err"]

\* `match fs::remove_dir_all(path)`: Ok returns, Err goes on in the loop
RemoveAttempt ==
    /\ tasks.delete.pc = "remove"
    /\ \E refused \in BOOLEAN :
           IF ~refused /\ remove_dir_all(Disk, tasks.delete.path).ok
           THEN Step(remove_dir_all(Disk, tasks.delete.path).s,
                     [tasks EXCEPT !.delete.pc = "ok",
                                   !.delete.outcomes = Append(@, TRUE)])
           ELSE Step(Disk,
                     [tasks EXCEPT !.delete =
                          AfterError([@ EXCEPT !.outcomes = Append(@, FALSE)])])

\* `thread::sleep(Duration::from_millis(delay_ms))` and the next turn
Sleep ==
    /\ tasks.delete.pc = "sleep"
    /\ Step(Disk,
            [tasks EXCEPT !.delete.slept = Append(@, delay_ms(tasks.delete.attempt)),
                          !.delete.attempt = @ + 1,
                          !.delete.pc = IF tasks.delete.attempt + 1 < tasks.delete.max_retries
                                        THEN "remove" ELSE "err"])

NextRetry == RemoveAttempt \/ Sleep

SpecRetry == InitRetry /\ [][NextRetry]_vars /\ WF_vars(NextRetry)

Backoff == <<100, 200, 400>>

DeleteReturned == tasks.delete.pc \in {"ok", "err"}

\* what holds of the attempts and the pauses at every moment
RetryBounded ==
    /\ Len(tasks.delete.outcomes) <= 3
    /\ Len(tasks.delete.slept) <= 2
    /\ tasks.delete.slept = SubSeq(Backoff, 1, Len(tasks.delete.slept))
    /\ \A i \in DOMAIN tasks.delete.outcomes :
           tasks.delete.outcomes[i] => i = Len(tasks.delete.outcomes) /\ tasks.delete.pc = "ok"
    /\ tasks.delete.pc = "ok" =>
           /\ tasks.delete.outcomes[Len(tasks.delete.outcomes)]
           /\ ~IsDir(Disk, tasks.delete.path)
           /\ Len(tasks.delete.slept) = Len(tasks.delete.outcomes) - 1
    /\ tasks.delete.pc = "err" =>
           /\ tasks.delete.outcomes = <<FALSE, FALSE, FALSE>>
           /\ tasks.delete.slept = <<100, 200>>

DEBOUNCE_DURATION == 2

MaxWatchTime == 4
MaxEvents == 3

\* notify::EventKind, and "Error" for the Err(notify::Error) the callback sends
EventKinds == {"Create", "Remove", "Modify", "Access", "Error"}

\* matches!(event.kind, Create(_) | Remove(_) | Modify(_))
is_relevant(kind) == kind \in {"Create", "Remove", "Modify"}

\* FileWatcher::new and the first line of monitor_events
InitWatcher ==
    /\ files = << >>
    /\ dirs = {mods_directory}
    /\ meta = << >>
    /\ thumbs = {}
    /\ now = 0
    /\ last = NoCall
    /\ tasks = [clock |-> 0, last_emit |-> 0, channel |-> << >>, emitted |-> << >>,
                unnotified |-> {}, events |-> 0]

Watch(t) == tasks' = t /\ UNCHANGED <<files, dirs, meta, thumbs, now, last>>

\* a second passes
Tick ==
    /\ tasks.clock < MaxWatchTime
    /\ Watch([tasks EXCEPT !.clock = @ + 1])

\* `move |res| { let _ = tx.send(res); }`: the file system reports an event
\* or an error
FsEvent ==
    /\ tasks.events < MaxEvents
    /\ \E kind \in EventKinds :
           Watch([tasks EXCEPT !.channel = Append(@, kind),
                               !.events = @ + 1,
                               !.unnotified = IF is_relevant(kind)
                                              THEN @ \cup {tasks.clock} ELSE @])

\* one turn of the loop of monitor_events: rx.recv() and the match on it
Receive ==
    /\ tasks.channel # << >>
    /\ IF is_relevant(Head(tasks.channel))
          /\ tasks.clock - tasks.last_emit >= DEBOUNCE_DURATION
       THEN Watch([tasks EXCEPT !.channel = Tail(@),
                                !.emitted = Append(@, tasks.clock),
                                !.last_emit = tasks.clock,
                                !.unnotified = {}])
       ELSE Watch([tasks EXCEPT !.channel = Tail(@)])

NextWatcher == Tick \/ FsEvent \/ Receive

\* the monitoring thread runs: what is in the channel is received
SpecWatcher == InitWatcher /\ [][NextWatcher]_vars /\ WF_vars(Receive)

\* two notifications are at least DEBOUNCE_DURATION apart
EmitsApart ==
    \A i \in DOMAIN tasks.emitted : \A j \in DOMAIN tasks.emitted :
        i < j => tasks.emitted[j] - tasks.emitted[i] >= DEBOUNCE_DURATION

\* C39: every relevant event is eventually followed by a notification emitted
\* at or after it, and two notifications are never less than 2 seconds apart.
C39_NeverStale ==
    /\ (tasks.unnotified # {}) ~> (tasks.unnotified = {})
    /\ []EmitsApart

(***************************************************************************)
(* thumbnail_service.rs, crop_image: the bounds check in u32.  A u32 is    *)
(* kept as two limbs of 16 bits, <<high, low>>, and added limb by limb     *)
(* with the carry, so that the sum has the 32 bits of the source.  The sum *)
(* of the source overflows when the carry leaves the high limb: a build    *)
(* with overflow checks panics there, a build without them goes on with    *)
(* the sum wrapped.                                                        *)
(***************************************************************************)
Limb == 2^16

U32(high, low) == <<high, low>>

\* the sum as a mathematical integer: the carry out of 32 bits and the limbs
WideSum(a, b) ==
    [carry |-> (a[1] + b[1] + (a[2] + b[2]) \div Limb) \div Limb,
     high  |-> (a[1] + b[1] + (a[2] + b[2]) \div Limb) % Limb,
     low   |-> (a[2] + b[2]) % Limb]

\* u32 + u32 without overflow checks
wrapping_add(a, b) == U32(WideSum(a, b).high, WideSum(a, b).low)

Overflows(a, b) == WideSum(a, b).carry > 0

\* a > b in u32
Greater(a, b) == a[1] > b[1] \/ (a[1] = b[1] /\ a[2] > b[2])

\* `crop_data.x + crop_data.width > img.width()`, the sum not overflowing or
\* wrapped
Exceeds(a, b, bound) == Greater(wrapping_add(a, b), bound)

\* crop_image: what the call ends in
crop_image(img, crop_data, overflow_checks) ==
    IF overflow_checks /\ Overflows(crop_data.x, crop_data.width) THEN "Panic"
    ELSE IF Exceeds(crop_data.x, crop_data.width, img.width) THEN "Err"
    ELSE IF overflow_checks /\ Overflows(crop_data.y, crop_data.height) THEN "Panic"
    ELSE IF Exceeds(crop_data.y, crop_data.height, img.height) THEN "Err"
    ELSE "Ok"

\* 0, 10, 50, 51, 100, 2^16, 2^32 - 50, 2^32 - 1
CropValues ==
    {U32(0, 0), U32(0, 10), U32(0, 50), U32(0, 51), U32(0, 100), U32(1, 0),
     U32(Limb - 1, Limb - 50), U32(Limb - 1, Limb - 1)}

\* images of 100 x 100 and of 65536 x 100
CropImages == {[width |-> w, height |-> U32(0, 100)] : w \in {U32(0, 100), U32(1, 0)}}

CropInputs ==
    {[fn |-> "crop_image", img |-> i,
      crop_data |-> [x |-> x, y |-> y, width |-> w, height |-> h]] :
        i \in CropImages, x \in CropValues, y \in {U32(0, 0), U32(0, 50), U32(Limb - 1, Limb - 50)},
        w \in CropValues, h \in {U32(0, 50), U32(0, 51), U32(0, 100)}}

InitCrop == InitPure(CropInputs)

\* the call, in a build with overflow checks or without
CropImage ==
    /\ now = 0
    /\ \E overflow_checks \in BOOLEAN :
           Return("crop_image",
                  [fn |-> last.args.fn, img |-> last.args.img,
                   crop_data |-> last.args.crop_data, overflow_checks |-> overflow_checks],
                  NoFault,
                  Ok(Disk, crop_image(last.args.img, last.args.crop_data, overflow_checks)),
                  << >>)

NextCrop == CropImage

SpecCrop == InitCrop /\ [][NextCrop]_vars

\* a + b <= bound as mathematical integers
FitsIn(a, b, bound) ==
    /\ WideSum(a, b).carry = 0
    /\ ~Greater(U32(WideSum(a, b).high, WideSum(a, b).low), bound)

\* C40: crop_image succeeds exactly when x + width <= the image's width and
\* y + height <= the image's height as mathematical integers, and returns an
\* error otherwise.
C40_CropChecksBounds ==
    Returned("crop_image") =>
        last.ret[last.op] =
            IF /\ FitsIn(last.args.crop_data.x, last.args.crop_data.width, last.args.img.width)
               /\ FitsIn(last.args.crop_data.y, last.args.crop_data.height,
                         last.args.img.height)
            THEN "Ok" ELSE "Err"
=============================================================================
